---- MODULE Spec2Model ----
(***************************************************************************)
(* Model of the modular "guess the song" bot (src/src/bot.js and the       *)
(* modules it loads): the process-wide gameState object, the message and   *)
(* interaction handlers, and the timers and awaits between them.           *)
(*                                                                         *)
(* JavaScript runs every handler to its next await without interruption,   *)
(* so one action is one synchronous stretch of a handler.  A handler that  *)
(* is suspended at an await, and a pending setTimeout, are counted in the  *)
(* task variables below; the order in which they resume is left open,      *)
(* because the awaited Discord calls have no bound on their latency.       *)
(***************************************************************************)
EXTENDS Integers, Sequences, FiniteSets, TLC

\* ------------------------------------------------------------------ bounds
MaxTracks == 2      \* longest playlist a fetch returns
MaxTasks == 2       \* suspended handlers and pending timers alive at once;
                    \* in a single session a second answer may await its
                    \* reply on top of them
MaxScore == 1       \* highest score a player is followed to
MaxRound == 3       \* highest value currentRound is followed to
MaxSessions == 2    \* accepted starts followed between two game-over summaries
MaxPresses == 1     \* setup-button presses followed
MaxListLen == 5     \* longest list generateMultipleChoiceOptions is run on
MaxGuessSteps == 64 \* guess times scored: 0, 750, ... , 750 * MaxGuessSteps ms
MaxCredits == 1     \* answers scored in a row by the scoring computation
MaxJoins == 3       \* voice connections created by playRoundAudio
MaxEvents == 2      \* disconnect and error events of voice connections
MaxVoiceRounds == 3 \* playRoundAudio calls followed one after another
MaxCalls == 3       \* findAndPlayAudio calls followed one after another
MaxTime == 45       \* minutes the clock of the audio cache is followed for
TickMinutes == 15   \* minutes per step of that clock
MaxInserts == 53    \* cacheAudioData calls followed on the cache alone
MaxSpawns == 4      \* yt-dlp processes followed for one round
MaxWaiters == 2     \* callers waiting in waitForRefresh at once
MaxFailures == 6    \* failed token requests followed in a row
MaxFetched == 3     \* tracks of a playlist that fetchSpotifyPlaylist dedups
MaxPopularity == 1  \* highest popularity of such a track
MaxNameLen == 3     \* longest guess and longest title compared
MaxMembers == 3     \* people who come to the voice channel or vote
MaxRedirects == 2   \* redirects a preview fetch is followed through
MaxChunks == 2      \* 'data' events of a preview response followed
MaxPreviewTime == 30000 \* ms a preview fetch is followed for
PreviewTick == 5000 \* ms per step of its clock
MaxAudioDelay == 10000  \* ms playRoundAudio may take to return
ClockTick == 5000       \* ms per step of the round clock
MaxPlayers == 6         \* audio players created for one round

Users == {"u1", "u2"}

\* The status codes a preview server answers with.
StatusCodes == {200, 302, 404}

\* The guilds the bot is a member of.
Guilds == {1, 2}

\* The setup buttons pressed while guilds are told apart.
SetupActions == {"rounds"}

\* `!start` without a number is the argument 0.
StartArgs == {0, 1}

\* Date.now() - roundStartTime at the moment an answer is handled (ms).
GuessTimes == {50000}

\* ------------------------------------------------------- program constants
Undefined == -1     \* the JavaScript value undefined, as an index or a song
Null == 0           \* currentSong and currentOptions before the first round
Live == 1           \* a connection or player object, in the session flow

DefaultRounds == 5
DefaultTimeLimit == 30000
MinRoundsArg == 1
MaxRoundsArg == 50
RoundsWrapAt == 20
RoundsStep == 5
OptionCount == 4
MaxAttempts == 50
MaxConnectionRetries == 3
MaxRetries == 2
SpotifyPreviewTimeout == 15000
MaxCacheSize == 50
CacheTimeoutMinutes == 30
MaxYtRetries == 2
MaxTokenRetries == 5
RetryDelayCeiling == 300000
RetryDelayUnit == 1000

Difficulties == <<"easy", "medium", "hard">>

Max(a, b) == IF a >= b THEN a ELSE b

TimeLimitOf(d) ==
    CASE d = "easy" -> 45000
      [] d = "medium" -> 30000
      [] d = "hard" -> 15000

\* A playlist of n tracks; tracks[i + 1] is the JavaScript tracks[i].
Playlist(n) == [i \in 1..n |-> i]

\* The songs findAndPlayAudio is called for: a cache key each, with or
\* without a preview_url.
Songs == {[key |-> 1, preview_url |-> TRUE], [key |-> 2, preview_url |-> FALSE]}
CacheKeySet == {s.key : s \in Songs}

VARIABLES
    \* gameState fields
    isPlaying, currentRound, totalRounds, playerScores, usedTracks, tracks,
    currentSong, currentOptions, timeLimit, difficulty, gameMode,
    \* pending timers and suspended handlers
    timerArmed,     \* the timer gameState.timeoutId names is still pending
    orphanTimers,   \* pending round timers that timeoutId no longer names
    startTimers,    \* setTimeout(startNextRound, 2000) of initializeGame
    nextTimers,     \* the 3 s timers that start the next round or end the game
    skipTimers,     \* setTimeout(skipCurrentRound, 2000) after an audio error
    starting,       \* startNextRound calls suspended in send / playRoundAudio
    replying,       \* handleMultipleChoiceAnswer calls awaiting their reply
    crashed,        \* the process has exited on an uncaught exception
    \* gameState.connection and gameState.player: Null, or Live for an
    \* object (which object is followed by the voice specification below)
    connection, player,
    \* history
    roundOpen,      \* a round has been started and cleanupRound has not run
    roundCredits,   \* answers credited since currentRound last changed
    roundSkips,     \* "Round Skipped" results sent since it last changed
    liveSessions,   \* initializeGame calls since the last game-over summary
    gameOvers,      \* game-over summaries since the last initializeGame
    endedSessions,  \* sessions in progress when the first of them was sent
    presses,        \* setup-button presses so far
    playCount,      \* times each index was picked since usedTracks was last
                    \* emptied by a start or a fetch
    summary,        \* the last game-over embed since the last start: "none",
                    \* or whether it carries the Winner field
    ownCall,        \* the startNextRound call of the open round is still
                    \* suspended
    ownTimer,       \* the round timer armed by that call: "none", "named"
                    \* when timeoutId names it, "orphan" when it no longer does
    \* one call of generateMultipleChoiceOptions
    allTracks, correctSong, options, used, attempts, shuffleIndex, optionsPc,
    menu,
    \* the scoring lines of handleMultipleChoiceAnswer on their own
    scoreLimit, scoreBoard, lastCredit,
    \* playRoundAudio and the voice connections it creates; there
    \* gameState.connection is the number of a connection object
    status,             \* connection.state.status of every object created
    localConnection,    \* playRoundAudio's local `connection`
    voicePc,            \* where the playRoundAudio call stands
    connectionRetries,
    grace,              \* connections whose Disconnected handler is waiting
    prevHandle,         \* history: gameState.connection when the previous
                        \* call succeeded, Null when there is none or it failed
    events,             \* history: disconnect and error events so far
    voiceRounds,        \* history: playRoundAudio calls so far
    graceLog,           \* history: outcomes of grace windows so far
    \* findAndPlayAudio and the audio cache
    audioCache,         \* the Map, as its entries in insertion order
    audioPc,            \* where the findAndPlayAudio call stands
    song, retryCount,
    now,                \* the clock, in minutes
    cachedAt,           \* history: when each key was last cached
    tierLog,            \* history: tiers tried in the current pass, in order
    failedTiers,        \* history: tiers that failed during the call
    servedBy,           \* history: the tier that started playback
    servedAge,          \* history: age of the entry the last lookup found
    calls,              \* history: findAndPlayAudio calls so far
    lastInsert,         \* history: the last cacheAudioData call on the cache
                        \* alone, with the keys held before it
    inserts,            \* history: such calls so far
    \* playFromYouTube and the yt-dlp processes it spawns for one round
    ytState,            \* each process: "unborn", "running" or "exited"
    ytKilled,           \* ytDlpProcess.killed of each process
    ytSignals,          \* the signals each process has been sent
    killTimers,         \* processes whose 3 s SIGKILL timer is pending
    ytPc,               \* where the playFromYouTube call stands
    ytRetryCount,
    spawns,             \* history: processes spawned for the track so far
    audioRetries,       \* retryCount of the findAndPlayAudio call in progress
    hasStarted, isResolved,
    timeout,            \* the 25 s timer of the current attempt is pending
    roundResolved,      \* cleanupRound has run for the round
    \* the SpotifyTokenManager object
    isRefreshing, tokenRetryCount,
    tokenRefreshTimeout,\* the timer tokenRefreshTimeout names is pending
    strayTimers,        \* pending refresh or retry timers it does not name
    tokenValid,         \* isTokenValid()
    grants,             \* clientCredentialsGrant requests in flight
    waiters,            \* callers in waitForRefresh
    failures,           \* history: failed requests since the last success
    lastDelay,          \* history: delay of the retry the last failure
                        \* scheduled, 0 when it scheduled none
    fatal,              \* history: the last failure reported that the
                        \* retries are exhausted
    \* the dedup and sort at the end of fetchSpotifyPlaylist
    fetchedTracks,      \* its allTracks: the tracks in fetch order
    uniqueTracks, seen,
    catalogPc,          \* the position in fetchedTracks, the sort, the end
    \* one open-answer guess: message.content against currentSong
    guess, songTitle, songArtist,
    titleSimilarity, artistSimilarity,
    verdict,            \* what the handler did with the guess
    guessPc,
    \* the guilds the events come from
    gameChannel,        \* gameState.gameChannel, by the guild it is in
    eventGuild,         \* history: the guild of the last message or
                        \* interaction handled
    \* one playSpotifyPreview call with the redirects it follows
    previewPc,          \* "idle", "requested", "body", "playing", "failed"
    previewNow,         \* ms since the call was made
    previewTimer,       \* when the pending 15 s timer fires, or Null
    redirects,          \* history: redirects followed so far
    chunks,             \* 'data' events of the response so far
    \* the skip votes
    skipVotes,          \* the user ids in the skipVotes set
    voiceMembers,       \* the non-bot members of the voice channel
    roundActive,        \* gameState.isPlaying, as the `!skip` handler sees it
    roundVoters,        \* history: who voted since the round began
    skipOutcome,        \* history: "skipped" once a vote has skipped the
                        \* round, "none" before
    \* one round against the clock
    clockPc,            \* "idle", "audio", "armed", "resolved"
    clockNow,           \* Date.now(), ms
    roundStartTime,
    clockDifficulty,    \* gameState.difficulty, which names the timeLimit
    armedAt,            \* when the countdown was armed, or Undefined
    armedLimit,         \* the delay it was armed with, or Null
    elapsedMs,          \* history: guessTime of the accepted answer, or
                        \* Undefined
    \* the audio players created for one round
    playerState,        \* each player: "idle", "playing" or "stopped"
    playerRetry,        \* the retryCount of the call that created it
    finding,            \* the findAndPlayAudio call in flight with it:
                        \* "awaited" by playRoundAudio, "detached", "none"
    listening,          \* players that still have their listeners
    retryTimers,        \* players whose 2 s retry timer is pending
    playerHandle,       \* gameState.player, by the number of the player
    playersPc,          \* playRoundAudio: "idle", "finding", "returned",
                        \* "failed"
    simplified,         \* the call it awaits is the one for simplifiedSong
    playersResolved     \* cleanupRound has run for the round

gsVars == <<isPlaying, currentRound, totalRounds, playerScores, usedTracks,
            tracks, currentSong, currentOptions, timeLimit, difficulty,
            gameMode>>
taskVars == <<timerArmed, orphanTimers, startTimers, nextTimers, skipTimers,
              starting, replying, crashed>>
histVars == <<roundOpen, roundCredits, roundSkips, liveSessions, gameOvers, endedSessions,
              presses, playCount, summary, ownCall, ownTimer>>
handleVars == <<connection, player>>
sessionVars == <<gsVars, taskVars, histVars, handleVars>>
optionVars == <<allTracks, correctSong, options, used, attempts, shuffleIndex,
                optionsPc, menu>>
scoreVars == <<scoreLimit, scoreBoard, lastCredit>>
voiceVars == <<status, localConnection, voicePc, connectionRetries, grace,
               prevHandle, events, voiceRounds, graceLog>>
audioVars == <<audioCache, audioPc, song, retryCount, now, cachedAt, tierLog,
               failedTiers, servedBy, servedAge, calls, lastInsert, inserts>>
ytVars == <<ytState, ytKilled, ytSignals, killTimers, ytPc, ytRetryCount,
            spawns, audioRetries,
            hasStarted, isResolved, timeout, roundResolved>>
\* The parts of the program that are followed on their own further down.
tokenVars == <<isRefreshing, tokenRetryCount, tokenRefreshTimeout,
               strayTimers, tokenValid, grants, waiters, failures,
               lastDelay, fatal>>
catalogVars == <<fetchedTracks, uniqueTracks, seen, catalogPc>>
guessVars == <<guess, songTitle, songArtist, titleSimilarity,
               artistSimilarity, verdict, guessPc>>
guildVars == <<gameChannel, eventGuild>>
previewVars == <<previewPc, previewNow, previewTimer, redirects, chunks>>
voteVars == <<skipVotes, voiceMembers, roundActive, roundVoters,
              skipOutcome>>
clockVars == <<clockPc, clockNow, roundStartTime, clockDifficulty, armedAt,
               armedLimit, elapsedMs>>
playersVars == <<playerState, playerRetry, finding, listening, retryTimers,
                 playerHandle, playersPc, simplified, playersResolved>>
otherVars == <<previewVars, voteVars, clockVars, playersVars>>
partVars == <<ytVars, tokenVars, catalogVars, guessVars, guildVars,
              otherVars>>
pureVars == <<optionVars, scoreVars, voiceVars, audioVars, partVars>>
\* What those parts leave alone, each adding the other parts.
coreVars == <<sessionVars, optionVars, scoreVars, voiceVars, audioVars>>
\* What the audio specifications leave alone.
audioFrame == <<sessionVars, optionVars, scoreVars, voiceVars, partVars>>
\* What the voice specification leaves alone: all but voiceVars and
\* gameState.connection.
voiceFrame == <<gsVars, taskVars, histVars, player, optionVars, scoreVars,
                audioVars, partVars>>
vars == <<sessionVars, pureVars>>

NoScores == [u \in Users |-> 0]
NoPlays == [i \in 0..(MaxTracks - 1) |-> 0]

Tasks ==
    startTimers + nextTimers + skipTimers + starting + replying
    + orphanTimers + (IF timerArmed THEN 1 ELSE 0)

\* --------------------------------------------------------------- gameState
\* GameState.reset(), run by the constructor.
Reset ==
    /\ currentSong = Null
    /\ playerScores = NoScores
    /\ isPlaying = FALSE
    /\ tracks = <<>>
    /\ usedTracks = {}
    /\ currentRound = 0
    /\ totalRounds = DefaultRounds
    /\ timeLimit = DefaultTimeLimit
    /\ difficulty = "medium"
    /\ gameMode = "multiple_choice"
    /\ currentOptions = Null
    /\ connection = Null
    /\ player = Null

InitSession ==
    /\ Reset
    /\ timerArmed = FALSE
    /\ orphanTimers = 0
    /\ startTimers = 0
    /\ nextTimers = 0
    /\ skipTimers = 0
    /\ starting = 0
    /\ replying = 0
    /\ crashed = FALSE
    /\ roundOpen = FALSE
    /\ roundCredits = 0
    /\ roundSkips = 0
    /\ liveSessions = 0
    /\ gameOvers = 0
    /\ endedSessions = 0
    /\ presses = 0
    /\ playCount = NoPlays
    /\ summary = "none"
    /\ ownCall = FALSE
    /\ ownTimer = "none"

\* The variables of the two pure computations while they are not in use.
OptionsIdle ==
    /\ allTracks = <<>>
    /\ correctSong = Null
    /\ options = <<>>
    /\ used = {}
    /\ attempts = 0
    /\ shuffleIndex = 0
    /\ optionsPc = "idle"
    /\ menu = <<>>

ScoreIdle ==
    /\ scoreLimit = 0
    /\ scoreBoard = NoScores
    /\ lastCredit = <<>>

\* No playRoundAudio call yet, and no connection object.
VoiceIdle ==
    /\ status = <<>>
    /\ localConnection = Null
    /\ voicePc = "idle"
    /\ connectionRetries = 0
    /\ grace = {}
    /\ prevHandle = Null
    /\ events = 0
    /\ voiceRounds = 0
    /\ graceLog = {}

\* The cache empty and no findAndPlayAudio call yet.
AudioIdle ==
    /\ audioCache = <<>>
    /\ audioPc = "idle"
    /\ song = Null
    /\ retryCount = 0
    /\ now = 0
    /\ cachedAt = [k \in CacheKeySet |-> 0]
    /\ tierLog = <<>>
    /\ failedTiers = {}
    /\ servedBy = "none"
    /\ servedAge = 0
    /\ calls = 0
    /\ lastInsert = <<>>
    /\ inserts = 0

\* No yt-dlp process yet.
YtIdle ==
    /\ ytState = [p \in 1..MaxSpawns |-> "unborn"]
    /\ ytKilled = [p \in 1..MaxSpawns |-> FALSE]
    /\ ytSignals = [p \in 1..MaxSpawns |-> {}]
    /\ killTimers = {}
    /\ ytPc = "idle"
    /\ ytRetryCount = 0
    /\ spawns = 0
    /\ audioRetries = 0
    /\ hasStarted = FALSE
    /\ isResolved = FALSE
    /\ timeout = FALSE
    /\ roundResolved = FALSE

\* The SpotifyTokenManager as constructed.
TokenIdle ==
    /\ isRefreshing = FALSE
    /\ tokenRetryCount = 0
    /\ tokenRefreshTimeout = FALSE
    /\ strayTimers = 0
    /\ tokenValid = FALSE
    /\ grants = 0
    /\ waiters = 0
    /\ failures = 0
    /\ lastDelay = 0
    /\ fatal = FALSE

\* No playlist being fetched.
CatalogIdle ==
    /\ fetchedTracks = <<>>
    /\ uniqueTracks = <<>>
    /\ seen = {}
    /\ catalogPc = 0

\* No guess being handled.
GuessIdle ==
    /\ guess = <<>>
    /\ songTitle = <<>>
    /\ songArtist = <<>>
    /\ titleSimilarity = <<0, 1>>
    /\ artistSimilarity = <<0, 1>>
    /\ verdict = "none"
    /\ guessPc = "idle"

\* GameState.reset() for gameChannel; no event handled yet.
GuildIdle ==
    /\ gameChannel = Null
    /\ eventGuild = Null

\* No preview being fetched.
PreviewIdle ==
    /\ previewPc = "idle"
    /\ previewNow = 0
    /\ previewTimer = Null
    /\ redirects = 0
    /\ chunks = 0

\* The empty skipVotes set, nobody in the voice channel, no round.
VotesIdle ==
    /\ skipVotes = {}
    /\ voiceMembers = {}
    /\ roundActive = FALSE
    /\ roundVoters = {}
    /\ skipOutcome = "none"

ClockIdle ==
    /\ clockPc = "idle"
    /\ clockNow = 0
    /\ roundStartTime = 0
    /\ clockDifficulty = "medium"
    /\ armedAt = Undefined
    /\ armedLimit = Null
    /\ elapsedMs = Undefined

PlayersIdle ==
    /\ playerState = <<>>
    /\ playerRetry = <<>>
    /\ finding = <<>>
    /\ listening = {}
    /\ retryTimers = {}
    /\ playerHandle = Null
    /\ playersPc = "idle"
    /\ simplified = FALSE
    /\ playersResolved = FALSE

OthersIdle == PreviewIdle /\ VotesIdle /\ ClockIdle /\ PlayersIdle

PartsIdle ==
    YtIdle /\ TokenIdle /\ CatalogIdle /\ GuessIdle /\ GuildIdle /\ OthersIdle

Init ==
    InitSession /\ OptionsIdle /\ ScoreIdle /\ VoiceIdle /\ AudioIdle
    /\ PartsIdle

\* ------------------------------------------------------------------ fetch
\* handleFetchCommand: the playlist is installed only when it is non-empty.
HandleFetchCommand(n) ==
    /\ ~crashed
    /\ UNCHANGED pureVars
    /\ n > 0
    /\ tracks' = Playlist(n)
    /\ usedTracks' = {}
    /\ playCount' = NoPlays
    /\ UNCHANGED <<isPlaying, currentRound, totalRounds, playerScores,
                   currentSong, currentOptions, timeLimit, difficulty,
                   gameMode, taskVars, roundOpen, roundCredits, roundSkips,
                   liveSessions, gameOvers, endedSessions, presses, summary, ownCall,
                   ownTimer, handleVars>>

\* handleFetchCategoryCommand: installs whatever fetchSpotifyPlaylist
\* returned, an empty list included.
HandleFetchCategoryCommand(n) ==
    /\ ~crashed
    /\ UNCHANGED pureVars
    /\ tracks' = Playlist(n)
    /\ usedTracks' = {}
    /\ playCount' = NoPlays
    /\ UNCHANGED <<isPlaying, currentRound, totalRounds, playerScores,
                   currentSong, currentOptions, timeLimit, difficulty,
                   gameMode, taskVars, roundOpen, roundCredits, roundSkips,
                   liveSessions, gameOvers, endedSessions, presses, summary, ownCall,
                   ownTimer, handleVars>>

\* ------------------------------------------------------------------ start
\* initializeGame up to its first await; the 2 s timer it sets afterwards is
\* counted from here on.  totalRounds is left to the caller.
InitializeGame ==
    /\ Tasks < MaxTasks
    /\ liveSessions < MaxSessions
    /\ isPlaying' = TRUE
    /\ currentRound' = 0
    /\ playerScores' = NoScores
    /\ usedTracks' = {}
    /\ startTimers' = startTimers + 1
    /\ liveSessions' = liveSessions + 1
    /\ gameOvers' = 0
    /\ endedSessions' = 0
    /\ roundCredits' = 0
    /\ roundSkips' = 0
    /\ playCount' = NoPlays
    /\ summary' = "none"
    /\ UNCHANGED <<tracks, currentSong, currentOptions, timeLimit, difficulty,
                   gameMode, timerArmed, orphanTimers, nextTimers, skipTimers,
                   starting, replying, crashed, roundOpen, presses,
                   ownCall, ownTimer, handleVars>>

\* handleStartGameCommand, the caller being in a voice channel.
HandleStartGameCommand(arg) ==
    /\ ~crashed
    /\ UNCHANGED pureVars
    /\ ~isPlaying
    /\ Len(tracks) # 0
    /\ totalRounds' = IF arg >= MinRoundsArg /\ arg <= MaxRoundsArg
                      THEN arg ELSE totalRounds
    /\ InitializeGame

\* handleStartGame (the start_game button), the caller being in a voice
\* channel: it does not look at isPlaying.
HandleStartGame ==
    /\ ~crashed
    /\ UNCHANGED pureVars
    /\ Len(tracks) # 0
    /\ UNCHANGED totalRounds
    /\ InitializeGame

\* ------------------------------------------------------------ round flow
\* endGame: cleanupRound, the connection destroyed, and the summary, which
\* has the Winner field when playerScores has a key.  currentRound, the
\* round counters and the timers that call it are left to the caller.
EndGame ==
    /\ isPlaying' = FALSE
    /\ timerArmed' = FALSE
    /\ roundOpen' = FALSE
    /\ player' = Null
    /\ connection' = Null
    /\ summary' = IF \E u \in Users : playerScores[u] > 0
                  THEN "winner" ELSE "no_winner"
    /\ gameOvers' = gameOvers + 1
    /\ endedSessions' = IF gameOvers = 0 THEN liveSessions ELSE endedSessions
    /\ liveSessions' = 0
    /\ ownCall' = FALSE
    /\ ownTimer' = "none"
    /\ UNCHANGED <<totalRounds, playerScores, usedTracks, tracks, currentSong,
                   currentOptions, timeLimit, difficulty, gameMode,
                   orphanTimers, skipTimers, starting, replying, crashed,
                   presses, playCount>>

\* The indices startNextRound draws from, and the used set it adds to.
AllIndices == 0..(Len(tracks) - 1)

AvailableIndices ==
    IF AllIndices \ usedTracks = {} THEN AllIndices
    ELSE AllIndices \ usedTracks

UsedAfterReset ==
    IF AllIndices \ usedTracks = {} THEN {} ELSE usedTracks

\* A draw from the whole list, used or not.
RandomIndexOfWholeList ==
    IF AllIndices = {} THEN {Undefined} ELSE AllIndices

\* availableIndices[Math.floor(Math.random() * length)]: any available
\* index, and undefined when the list is empty.
RandomIndexChoices ==
    IF AvailableIndices = {} THEN {Undefined} ELSE AvailableIndices

\* startNextRound up to its first await.  generateMultipleChoiceOptions
\* throws on an undefined song, which ends the call there.
StartNextRound ==
    /\ currentRound < MaxRound
    /\ currentRound' = currentRound + 1
    /\ roundCredits' = 0
    /\ roundSkips' = 0
    /\ IF currentRound + 1 > totalRounds
       THEN EndGame
       ELSE \E randomIndex \in RandomIndexChoices :
              /\ currentSong' = IF randomIndex = Undefined THEN Undefined
                                ELSE tracks[randomIndex + 1]
              /\ usedTracks' = UsedAfterReset \cup {randomIndex}
              /\ playCount' = IF randomIndex = Undefined THEN playCount
                              ELSE [playCount EXCEPT ![randomIndex] = @ + 1]
              /\ isPlaying' = TRUE
              /\ roundOpen' = TRUE
              /\ ownTimer' = "none"
              /\ IF gameMode = "multiple_choice"
                 THEN IF randomIndex = Undefined
                      THEN /\ UNCHANGED <<currentOptions, starting>>
                           /\ ownCall' = FALSE
                      ELSE /\ currentOptions' = tracks[randomIndex + 1]
                           /\ starting' = starting + 1
                           /\ ownCall' = TRUE
                 ELSE /\ UNCHANGED currentOptions
                      /\ starting' = starting + 1
                      /\ ownCall' = TRUE
              /\ UNCHANGED <<totalRounds, playerScores, tracks, timeLimit,
                             difficulty, gameMode, timerArmed, orphanTimers,
                             skipTimers, replying, crashed, liveSessions,
                             gameOvers, endedSessions, presses, summary, handleVars>>

\* The 2 s timer of initializeGame fires.
StartTimerFires ==
    /\ ~crashed
    /\ UNCHANGED pureVars
    /\ startTimers > 0
    /\ startTimers' = startTimers - 1
    /\ UNCHANGED nextTimers
    /\ StartNextRound

\* A 3 s timer set by a correct answer or by skipCurrentRound fires;
\* voiceChannel tells whether the member it looks up is in a voice channel.
NextTimerFires(voiceChannel) ==
    /\ ~crashed
    /\ UNCHANGED pureVars
    /\ nextTimers > 0
    /\ nextTimers' = nextTimers - 1
    /\ UNCHANGED startTimers
    /\ IF currentRound < totalRounds /\ voiceChannel
       THEN StartNextRound
       ELSE EndGame /\ UNCHANGED <<currentRound, roundCredits, roundSkips>>

\* startNextRound resumes after playRoundAudio: it arms the round timer, or
\* after a failure sets the 2 s skip timer.  Audio cannot be found for an
\* undefined song.  playRoundAudio has joined or reused a connection on
\* either way out, and has set gameState.player when it succeeded.  The
\* call that resumes is the one of the open round (own) or an older one.
PlayRoundAudioReturns(ok) ==
    /\ ~crashed
    /\ UNCHANGED pureVars
    /\ starting > 0
    /\ ok => currentSong \notin {Null, Undefined}
    /\ starting' = starting - 1
    /\ connection' = Live
    /\ \E own \in BOOLEAN :
         /\ IF own THEN ownCall ELSE starting > (IF ownCall THEN 1 ELSE 0)
         /\ ownCall' = IF own THEN FALSE ELSE ownCall
         /\ ownTimer' = IF ~ok THEN ownTimer
                        ELSE IF own THEN "named"
                        ELSE IF ownTimer = "named" THEN "orphan"
                        ELSE ownTimer
    /\ IF ok
       THEN /\ timerArmed' = TRUE
            /\ orphanTimers' = orphanTimers + (IF timerArmed THEN 1 ELSE 0)
            /\ player' = Live
            /\ UNCHANGED skipTimers
       ELSE /\ skipTimers' = skipTimers + 1
            /\ UNCHANGED <<timerArmed, orphanTimers, player>>
    /\ UNCHANGED <<gsVars, startTimers, nextTimers, replying, crashed,
                   roundOpen, roundCredits, roundSkips, liveSessions,
                   gameOvers, endedSessions, presses, playCount, summary>>

\* The uncaughtException handler of bot.js: gameState.cleanup(), then exit.
Crash ==
    /\ crashed' = TRUE
    /\ isPlaying' = FALSE
    /\ roundOpen' = FALSE
    /\ timerArmed' = FALSE
    /\ orphanTimers' = 0
    /\ startTimers' = 0
    /\ nextTimers' = 0
    /\ skipTimers' = 0
    /\ starting' = 0
    /\ replying' = 0
    /\ player' = Null
    /\ connection' = Null
    /\ ownCall' = FALSE
    /\ ownTimer' = "none"
    /\ UNCHANGED <<currentRound, totalRounds, playerScores, usedTracks, tracks,
                   currentSong, currentOptions, timeLimit, difficulty,
                   gameMode, roundCredits, roundSkips, liveSessions,
                   gameOvers, endedSessions, presses, playCount, summary>>

\* A timer whose callback ends in skipCurrentRound fires: the round timer
\* that timeoutId names ("round"), an older round timer ("orphan") or the
\* skip timer of an audio error ("skip").  skipCurrentRound returns when
\* isPlaying is false; building its embed from an undefined song throws
\* inside the timer callback.
TimerFires(kind) ==
    LET ta == IF kind = "round" THEN FALSE ELSE timerArmed
        ot == IF kind = "orphan" THEN orphanTimers - 1 ELSE orphanTimers
        st == IF kind = "skip" THEN skipTimers - 1 ELSE skipTimers
    IN  /\ ~crashed
        /\ UNCHANGED pureVars
        /\ kind = "round" => timerArmed
        /\ kind = "orphan" => orphanTimers > 0
        /\ kind = "skip" => skipTimers > 0
        /\ IF ~isPlaying
           THEN /\ timerArmed' = ta
                /\ orphanTimers' = ot
                /\ skipTimers' = st
                /\ UNCHANGED <<gsVars, startTimers, nextTimers, starting,
                               replying, crashed, histVars, handleVars>>
           ELSE IF currentSong \in {Null, Undefined}
                THEN Crash
                ELSE /\ isPlaying' = FALSE
                     /\ timerArmed' = FALSE
                     /\ roundOpen' = FALSE
                     /\ orphanTimers' = ot
                     /\ skipTimers' = st
                     /\ roundSkips' = roundSkips + 1
                     /\ nextTimers' = nextTimers + 1
                     /\ player' = Null
                     /\ ownCall' = FALSE
                     /\ ownTimer' = "none"
                     /\ UNCHANGED <<currentRound, totalRounds, playerScores,
                                    usedTracks, tracks, currentSong,
                                    currentOptions, timeLimit, difficulty,
                                    gameMode, startTimers, starting, replying,
                                    crashed, roundCredits, liveSessions,
                                    gameOvers, endedSessions, presses, playCount, summary,
                                    connection>>

RoundTimerFires == TimerFires("round")
OrphanTimerFires == TimerFires("orphan")
SkipTimerFires == TimerFires("skip")

\* ---------------------------------------------------------------- answers
TimeBonus(limit, guessTime) == Max(1, (limit - guessTime) \div 1000)

\* A fifth of the time bonus, with no added point.
PointsFifthOfBonus(limit, guessTime) ==
    Max(1, TimeBonus(limit, guessTime) \div 5)

Points(limit, guessTime) == Max(1, (TimeBonus(limit, guessTime) \div 3) + 1)

\* The points given to every player.
CreditScoreOfAll(scores, userId, limit, guessTime) ==
    [u \in Users |-> scores[u] + Points(limit, guessTime)]

\* playerScores[userId] = (playerScores[userId] || 0) + points
CreditScore(scores, userId, limit, guessTime) ==
    [scores EXCEPT ![userId] = @ + Points(limit, guessTime)]

\* handleInteraction / handleMultipleChoiceAnswer for a selection of the
\* option marked correct, up to the await of the reply.  (Any other
\* selection, and any selection while isPlaying is false, changes nothing.)
\* Building the embed from an undefined song throws before the reply.
HandleMultipleChoiceAnswer(userId, guessTime) ==
    /\ ~crashed
    /\ UNCHANGED pureVars
    /\ isPlaying
    /\ currentOptions # Null
    /\ (Tasks < MaxTasks
          \/ (Tasks = MaxTasks /\ replying = 1 /\ liveSessions = 1))
    /\ playerScores[userId] + Points(timeLimit, guessTime) <= MaxScore
    /\ playerScores' = CreditScore(playerScores, userId, timeLimit, guessTime)
    /\ roundCredits' = roundCredits + 1
    /\ replying' = IF currentSong \in {Null, Undefined} THEN replying
                   ELSE replying + 1
    /\ UNCHANGED <<isPlaying, currentRound, totalRounds, usedTracks, tracks,
                   currentSong, currentOptions, timeLimit, difficulty,
                   gameMode, timerArmed, orphanTimers, startTimers,
                   nextTimers, skipTimers, starting, crashed, roundOpen,
                   roundSkips, liveSessions, gameOvers, endedSessions, presses, playCount,
                   summary, ownCall, ownTimer, handleVars>>

\* A cleanupRound that destroys the connection as well.
ReplySentDestroysConnection ==
    /\ ~crashed
    /\ UNCHANGED pureVars
    /\ replying > 0
    /\ replying' = replying - 1
    /\ timerArmed' = FALSE
    /\ isPlaying' = FALSE
    /\ roundOpen' = FALSE
    /\ nextTimers' = nextTimers + 1
    /\ player' = Null
    /\ connection' = Null
    /\ ownCall' = FALSE
    /\ ownTimer' = "none"
    /\ UNCHANGED <<currentRound, totalRounds, playerScores, usedTracks, tracks,
                   currentSong, currentOptions, timeLimit, difficulty,
                   gameMode, orphanTimers, startTimers, skipTimers, starting,
                   crashed, roundCredits, roundSkips, liveSessions, gameOvers, endedSessions,
                   presses, playCount, summary>>

\* The reply has been sent: clearTimeout, cleanupRound, and the 3 s timer.
ReplySent ==
    /\ ~crashed
    /\ UNCHANGED pureVars
    /\ replying > 0
    /\ replying' = replying - 1
    /\ timerArmed' = FALSE
    /\ isPlaying' = FALSE
    /\ roundOpen' = FALSE
    /\ nextTimers' = nextTimers + 1
    /\ player' = Null
    /\ ownCall' = FALSE
    /\ ownTimer' = "none"
    /\ UNCHANGED <<currentRound, totalRounds, playerScores, usedTracks, tracks,
                   currentSong, currentOptions, timeLimit, difficulty,
                   gameMode, orphanTimers, startTimers, skipTimers, starting,
                   crashed, roundCredits, roundSkips, liveSessions, gameOvers, endedSessions,
                   presses, playCount, summary, connection>>

\* ---------------------------------------------------------- setup buttons
IndexOf(d) == CHOOSE i \in 1..Len(Difficulties) : Difficulties[i] = d

NextDifficulty(d) == Difficulties[(IndexOf(d) % Len(Difficulties)) + 1]

NextTotalRounds(n) == IF n >= RoundsWrapAt THEN RoundsStep ELSE n + RoundsStep

\* handleSetupButton, one case per button.
HandleSetupButton(action) ==
    /\ ~crashed
    /\ UNCHANGED pureVars
    /\ presses < MaxPresses
    /\ presses' = presses + 1
    /\ gameMode' = IF action # "mode" THEN gameMode
                   ELSE IF gameMode = "multiple_choice" THEN "open_answer"
                   ELSE "multiple_choice"
    /\ difficulty' = IF action = "difficulty" THEN NextDifficulty(difficulty)
                     ELSE difficulty
    /\ timeLimit' = IF action = "difficulty"
                    THEN TimeLimitOf(NextDifficulty(difficulty))
                    ELSE timeLimit
    /\ totalRounds' = IF action = "rounds" THEN NextTotalRounds(totalRounds)
                      ELSE totalRounds
    /\ UNCHANGED <<isPlaying, currentRound, playerScores, usedTracks, tracks,
                   currentSong, currentOptions, taskVars, roundOpen,
                   roundCredits, roundSkips, liveSessions, gameOvers, endedSessions,
                   playCount, summary, ownCall, ownTimer, handleVars>>

SetupMode == HandleSetupButton("mode")
SetupDifficulty == HandleSetupButton("difficulty")
SetupRounds == HandleSetupButton("rounds")

\* ------------------------------------------------------- periodic cleanup
\* The 10-minute interval of bot.js: after 30 minutes without activity, and
\* so with every timer of the game long fired, cleanup() and reset().
StaleCleanup ==
    /\ ~crashed
    /\ UNCHANGED pureVars
    /\ ~isPlaying
    /\ Tasks = 0
    /\ currentSong' = Null
    /\ playerScores' = NoScores
    /\ isPlaying' = FALSE
    /\ tracks' = <<>>
    /\ usedTracks' = {}
    /\ currentRound' = 0
    /\ totalRounds' = DefaultRounds
    /\ timeLimit' = DefaultTimeLimit
    /\ difficulty' = "medium"
    /\ gameMode' = "multiple_choice"
    /\ currentOptions' = Null
    /\ roundOpen' = FALSE
    /\ roundCredits' = 0
    /\ roundSkips' = 0
    /\ liveSessions' = 0
    /\ gameOvers' = 0
    /\ endedSessions' = 0
    /\ playCount' = NoPlays
    /\ summary' = "none"
    /\ ownCall' = FALSE
    /\ ownTimer' = "none"
    /\ player' = Null
    /\ connection' = Null
    /\ UNCHANGED <<taskVars, presses>>

\* ------------------------------------------ generateMultipleChoiceOptions
\* One call of generateMultipleChoiceOptions(correctSong, allTracks), a step
\* per loop iteration.  A track object is a record whose id is its identity
\* (=== compares objects): the position in the list for a track of the list,
\* a negative number for a placeholder made by the fill loop.
Titles == <<"a", "ab", "b">>
Artists == <<"bc", "c">>

TrackAt(i) ==
    [id |-> i,
     title |-> Titles[((i - 1) % Len(Titles)) + 1],
     artist |-> Artists[((i - 1) % Len(Artists)) + 1]]

TrackList(n) == [i \in 1..n |-> TrackAt(i)]

\* const key = track.title + track.artist
KeyOf(track) == track.title \o track.artist

Letters == <<"A", "B", "C", "D">>

InitOptions ==
    /\ InitSession
    /\ ScoreIdle
    /\ VoiceIdle
    /\ AudioIdle
    /\ PartsIdle
    /\ \E n \in 1..MaxListLen :
         /\ allTracks = TrackList(n)
         /\ \E i \in 1..n : correctSong = allTracks[i]
    /\ options = <<correctSong>>
    /\ used = {KeyOf(correctSong)}
    /\ attempts = 0
    /\ shuffleIndex = 0
    /\ optionsPc = "pick"
    /\ menu = <<>>

PickCondition == Len(options) < OptionCount /\ attempts < MaxAttempts

\* One iteration of the loop that draws the wrong options; j is
\* Math.floor(Math.random() * allTracks.length).
PickRandomTrack(j) ==
    /\ optionsPc = "pick"
    /\ PickCondition
    /\ LET randomTrack == allTracks[j + 1]
       IN  IF KeyOf(randomTrack) \notin used
           THEN /\ options' = Append(options, randomTrack)
                /\ used' = used \cup {KeyOf(randomTrack)}
           ELSE UNCHANGED <<options, used>>
    /\ attempts' = attempts + 1
    /\ UNCHANGED <<sessionVars, scoreVars, voiceVars, audioVars, partVars,
                   allTracks, correctSong,
                   shuffleIndex, optionsPc, menu>>

\* The placeholder pushed when options holds n entries.
MysterySong(n) ==
    [id |-> 0 - n,
     title |-> "Mystery Song " \o ToString(n),
     artist |-> "Unknown Artist"]

RECURSIVE FillOptions(_)
FillOptions(opts) ==
    IF Len(opts) < OptionCount
    THEN FillOptions(Append(opts, MysterySong(Len(opts))))
    ELSE opts

\* The draw loop has ended: the fill loop runs, and the shuffle starts at
\* the last position.
FillRemainingSlots ==
    /\ optionsPc = "pick"
    /\ ~PickCondition
    /\ options' = FillOptions(options)
    /\ shuffleIndex' = Len(FillOptions(options)) - 1
    /\ optionsPc' = "shuffle"
    /\ UNCHANGED <<sessionVars, scoreVars, voiceVars, audioVars, partVars,
                   allTracks, correctSong, used,
                   attempts, menu>>

Swap(seq, a, b) == [seq EXCEPT ![a] = seq[b], ![b] = seq[a]]

\* One iteration of the shuffle; j is Math.floor(Math.random() * (i + 1)).
ShuffleStep(j) ==
    /\ optionsPc = "shuffle"
    /\ shuffleIndex > 0
    /\ j <= shuffleIndex
    /\ options' = Swap(options, shuffleIndex + 1, j + 1)
    /\ shuffleIndex' = shuffleIndex - 1
    /\ UNCHANGED <<sessionVars, scoreVars, voiceVars, audioVars, partVars,
                   allTracks, correctSong, used,
                   attempts, optionsPc, menu>>

\* The options with isCorrect decided by the title instead of the object.
MapOptionsByTitle(opts, correct) ==
    [k \in 1..Len(opts) |->
        [label |-> Letters[k] \o ". " \o opts[k].title,
         value |-> "option_" \o ToString(k - 1),
         isCorrect |-> opts[k].title = correct.title]]

\* options.map((track, index) => ({label, value, isCorrect}))
MapOptions(opts, correct) ==
    [k \in 1..Len(opts) |->
        [label |-> Letters[k] \o ". " \o opts[k].title,
         value |-> "option_" \o ToString(k - 1),
         isCorrect |-> opts[k].id = correct.id]]

ReturnOptions ==
    /\ optionsPc = "shuffle"
    /\ shuffleIndex = 0
    /\ menu' = MapOptions(options, correctSong)
    /\ optionsPc' = "done"
    /\ UNCHANGED <<sessionVars, scoreVars, voiceVars, audioVars, partVars,
                   allTracks, correctSong, options,
                   used, attempts, shuffleIndex>>

NextOptions ==
    \/ \E j \in 0..(Len(allTracks) - 1) : PickRandomTrack(j)
    \/ FillRemainingSlots
    \/ \E j \in 0..(OptionCount - 1) : ShuffleStep(j)
    \/ ReturnOptions

SpecOptions == InitOptions /\ [][NextOptions]_vars

\* ---------------------------------------------------------------- scoring
\* The scoring lines of handleMultipleChoiceAnswer on their own, for every
\* time limit a difficulty sets and guess times up to past the longest one.
TimeLimits == {TimeLimitOf(Difficulties[i]) : i \in 1..Len(Difficulties)}

SampleGuessTimes == {750 * k : k \in 0..MaxGuessSteps}

InitScore ==
    /\ InitSession
    /\ OptionsIdle
    /\ VoiceIdle
    /\ AudioIdle
    /\ PartsIdle
    /\ scoreLimit \in TimeLimits
    /\ scoreBoard = NoScores
    /\ lastCredit = <<>>

CreditAnswer(userId, guessTime) ==
    /\ Len(lastCredit) < MaxCredits
    /\ scoreBoard' = CreditScore(scoreBoard, userId, scoreLimit, guessTime)
    /\ lastCredit' = <<[userId |-> userId, guessTime |-> guessTime,
                        before |-> scoreBoard]>> \o lastCredit
    /\ UNCHANGED <<sessionVars, optionVars, voiceVars, audioVars, partVars,
                   scoreLimit>>

NextScore ==
    \E userId \in Users, guessTime \in SampleGuessTimes :
        CreditAnswer(userId, guessTime)

SpecScore == InitScore /\ [][NextScore]_vars

\* ---------------------------------------------------------- playRoundAudio
\* playRoundAudio calls made one after another, as rounds follow each other,
\* and the voice connections they create.  A connection object is its number
\* in status; the library moves it signalling -> connecting -> ready, and an
\* event can disconnect it.  Waiting times (20 s for Ready, 5 s of grace, 3 s
\* before a retry) are steps that may be taken at any moment.
LiveStatuses == {"signalling", "connecting", "ready"}

\* const needsNewConnection = !connection || status is Destroyed,
\* Disconnected or Signalling
NeedsNewConnection ==
    \/ connection = Null
    \/ status[connection] \in {"destroyed", "disconnected", "signalling"}

\* connection.destroy() of the object numbered c (nothing for Null).
Destroy(st, c) ==
    IF c = Null THEN st ELSE [st EXCEPT ![c] = "destroyed"]

\* One pass of the loop body up to `await entersState(connection, Ready)`:
\* the old connection is destroyed and a new one joined, or the old one is
\* reused.
Attempt ==
    /\ IF NeedsNewConnection
       THEN /\ Len(status) < MaxJoins
            /\ status' = Append(Destroy(status, connection), "signalling")
            /\ connection' = Len(status) + 1
            /\ localConnection' = Len(status) + 1
       ELSE /\ localConnection' = connection
            /\ UNCHANGED <<status, connection>>
    /\ voicePc' = "waitReady"

\* playRoundAudio is called for a round.
PlayRoundAudio ==
    /\ voicePc = "idle"
    /\ voiceRounds < MaxVoiceRounds
    /\ voiceRounds' = voiceRounds + 1
    /\ connectionRetries' = 0
    /\ Attempt
    /\ UNCHANGED <<grace, prevHandle, events, graceLog,
                   voiceFrame>>

\* entersState(connection, Ready, 20000) resolves.
ReadyReached ==
    /\ voicePc = "waitReady"
    /\ status[localConnection] = "ready"
    /\ voicePc' = "audio"
    /\ UNCHANGED <<status, connection, localConnection, connectionRetries,
                   grace, prevHandle, events, voiceRounds,
                   graceLog, voiceFrame>>

\* The catch block of the loop: before the last attempt the connection that
\* gameState names is destroyed and the handle nulled, then 3 s of waiting;
\* after the last attempt the error is thrown to startNextRound.
CatchError ==
    /\ connectionRetries' = connectionRetries + 1
    /\ IF connectionRetries + 1 < MaxConnectionRetries
       THEN /\ status' = Destroy(status, connection)
            /\ connection' = Null
            /\ voicePc' = "retryWait"
            /\ UNCHANGED prevHandle
       ELSE /\ voicePc' = "idle"
            /\ prevHandle' = Null
            /\ UNCHANGED <<status, connection>>
    /\ UNCHANGED <<localConnection, grace, events, voiceRounds,
                   graceLog, voiceFrame>>

\* entersState(connection, Ready, 20000) rejects: Ready was not reached.
ReadyTimeout ==
    /\ voicePc = "waitReady"
    /\ status[localConnection] # "ready"
    /\ CatchError

\* findAndPlayAudio failed for the song and for the simplified song.
AudioFails ==
    /\ voicePc = "audio"
    /\ CatchError

\* findAndPlayAudio returned a player: playRoundAudio returns.
AudioPlays ==
    /\ voicePc = "audio"
    /\ voicePc' = "idle"
    /\ prevHandle' = connection
    /\ UNCHANGED <<status, connection, localConnection, connectionRetries,
                   grace, events, voiceRounds, graceLog, voiceFrame>>

\* The 3 s before a retry are over: the next pass of the loop.
RetryWaitOver ==
    /\ voicePc = "retryWait"
    /\ Attempt
    /\ UNCHANGED <<connectionRetries, grace, prevHandle, events,
                   voiceRounds, graceLog, voiceFrame>>

\* The library moves a connection towards Ready.
Progress(c) ==
    /\ status[c] \in {"signalling", "connecting"}
    /\ status' = [status EXCEPT ![c] = IF @ = "signalling" THEN "connecting"
                                       ELSE "ready"]
    /\ UNCHANGED <<connection, localConnection, voicePc, connectionRetries,
                   grace, prevHandle, events, voiceRounds,
                   graceLog, voiceFrame>>

\* A connection is disconnected: its Disconnected handler starts waiting for
\* Signalling or Connecting, 5 s at most.
Disconnect(c) ==
    /\ events < MaxEvents
    /\ status[c] \in LiveStatuses
    /\ status' = [status EXCEPT ![c] = "disconnected"]
    /\ grace' = grace \cup {c}
    /\ events' = events + 1
    /\ UNCHANGED <<connection, localConnection, voicePc, connectionRetries,
                   prevHandle, voiceRounds, graceLog, voiceFrame>>

\* A disconnected connection starts to reconnect.  A handler that is still
\* waiting resolves and leaves gameState.connection as it is.
Rejoin(c) ==
    /\ status[c] = "disconnected"
    /\ status' = [status EXCEPT ![c] = "signalling"]
    /\ grace' = grace \ {c}
    /\ graceLog' = IF c \in grace THEN graceLog \cup {"recovered"}
                   ELSE graceLog
    /\ UNCHANGED <<connection, localConnection, voicePc, connectionRetries,
                   prevHandle, events, voiceRounds, voiceFrame>>

\* The handler that keeps the handle whatever the wait ends with.
GraceElapsedKeepsHandle(c) ==
    /\ c \in grace
    /\ grace' = grace \ {c}
    /\ graceLog' = graceLog \cup {"elapsed"}
    /\ UNCHANGED <<connection, status, localConnection, voicePc,
                   connectionRetries, prevHandle, events,
                   voiceRounds, voiceFrame>>

\* The 5 s are over without Signalling or Connecting: the handler's catch
\* sets gameState.connection = null.
GraceElapsed(c) ==
    /\ c \in grace
    /\ grace' = grace \ {c}
    /\ graceLog' = graceLog \cup {"elapsed"}
    /\ connection' = Null
    /\ UNCHANGED <<status, localConnection, voicePc, connectionRetries,
                   prevHandle, events, voiceRounds, voiceFrame>>

\* connection.on('error'): gameState.connection = null.
ErrorEvent(c) ==
    /\ events < MaxEvents
    /\ status[c] \in LiveStatuses
    /\ connection' = Null
    /\ events' = events + 1
    /\ UNCHANGED <<status, localConnection, voicePc, connectionRetries, grace,
                   prevHandle, voiceRounds, graceLog, voiceFrame>>

NextVoice ==
    \/ PlayRoundAudio
    \/ ReadyReached
    \/ ReadyTimeout
    \/ AudioFails
    \/ AudioPlays
    \/ RetryWaitOver
    \/ \E c \in DOMAIN status : Progress(c)
    \/ \E c \in DOMAIN status : Disconnect(c)
    \/ \E c \in DOMAIN status : Rejoin(c)
    \/ \E c \in DOMAIN status : GraceElapsed(c)
    \/ \E c \in DOMAIN status : ErrorEvent(c)

SpecVoice == Init /\ [][NextVoice]_vars

\* -------------------------------------------------------- findAndPlayAudio
\* findAndPlayAudio calls made one after another, a step per tier, and the
\* audio cache they share.  Whether a tier starts playback is the caller's
\* environment: every outcome is followed.
Range(seq) == {seq[i] : i \in DOMAIN seq}

CacheKeys(cache) == [i \in DOMAIN cache |-> cache[i].key]

\* audioCache.has(key)
Has(cache, key) == \E i \in DOMAIN cache : cache[i].key = key

\* The entries that one fewer than the size limit may stay.
CacheAudioDataEvictsAbove(cache, key, data) ==
    LET kept == IF Len(cache) > MaxCacheSize THEN Tail(cache) ELSE cache
    IN  IF Has(kept, key)
        THEN [i \in DOMAIN kept |->
                IF kept[i].key = key THEN [key |-> key, data |-> data]
                ELSE kept[i]]
        ELSE Append(kept, [key |-> key, data |-> data])

\* cacheAudioData(key, data): at the size limit the first key of the Map is
\* deleted; Map.set keeps the place of a key that is present.
CacheAudioData(cache, key, data) ==
    LET kept == IF Len(cache) >= MaxCacheSize THEN Tail(cache) ELSE cache
    IN  IF Has(kept, key)
        THEN [i \in DOMAIN kept |->
                IF kept[i].key = key THEN [key |-> key, data |-> data]
                ELSE kept[i]]
        ELSE Append(kept, [key |-> key, data |-> data])

SpotifyData == [type |-> "spotify"]

Logged(tier, result) == Append(tierLog, [tier |-> tier, result |-> result])

\* The tier after a cache miss, without a look at the metadata search.
TierAfterMissSkipsSearch(s) == IF s.preview_url THEN "preview" ELSE "youtube"

\* The tier after a cache miss: the preview when the song has a preview_url.
TierAfterMiss(s) == IF s.preview_url THEN "preview" ELSE "search"

\* findAndPlayAudio(connection, song, spotifyApi) is called.
FindAndPlayAudio(s) ==
    /\ audioPc \in {"idle", "played", "failed"}
    /\ calls < MaxCalls
    /\ calls' = calls + 1
    /\ song' = s
    /\ retryCount' = 0
    /\ audioPc' = "lookup"
    /\ tierLog' = <<>>
    /\ failedTiers' = {}
    /\ servedBy' = "none"
    /\ servedAge' = 0
    /\ UNCHANGED <<audioCache, now, cachedAt, lastInsert, inserts, audioFrame>>

\* if (audioCache.has(cacheKey)): playCachedAudio is awaited, else the
\* first tier after the cache.
CacheLookup ==
    /\ audioPc = "lookup"
    /\ IF Has(audioCache, song.key)
       THEN /\ audioPc' = "cached"
            /\ servedAge' = now - cachedAt[song.key]
            /\ UNCHANGED tierLog
       ELSE /\ audioPc' = TierAfterMiss(song)
            /\ tierLog' = Logged("cache", "miss")
            /\ UNCHANGED servedAge
    /\ UNCHANGED <<audioCache, song, retryCount, now, cachedAt, failedTiers,
                   servedBy, calls, lastInsert, inserts, audioFrame>>

\* A tier has started playback: return player.
Played(tier) ==
    /\ audioPc' = "played"
    /\ servedBy' = tier
    /\ tierLog' = Logged(tier, "ok")
    /\ UNCHANGED <<song, retryCount, now, failedTiers, calls, lastInsert,
                   inserts, audioFrame>>

\* The outer catch: the whole call again while retryCount < MAX_RETRIES,
\* else the error is thrown to the caller.
OuterCatch(tier) ==
    /\ failedTiers' = failedTiers \cup {tier}
    /\ IF retryCount < MaxRetries
       THEN /\ retryCount' = retryCount + 1
            /\ audioPc' = "lookup"
            /\ tierLog' = <<>>
       ELSE /\ audioPc' = "failed"
            /\ tierLog' = Logged(tier, "error")
            /\ UNCHANGED retryCount
    /\ UNCHANGED <<audioCache, song, now, cachedAt, servedBy, servedAge,
                   calls, lastInsert, inserts, audioFrame>>

\* await playCachedAudio(player, cachedData), outside every inner try.
PlayCachedAudio(ok) ==
    /\ audioPc = "cached"
    /\ IF ok
       THEN /\ Played("cache")
            /\ UNCHANGED <<audioCache, cachedAt, servedAge>>
       ELSE OuterCatch("cache")

\* The preview tier: playSpotifyPreview of song.preview_url, cached when it
\* started; its error is caught and the search follows.
PlaySpotifyPreview(ok) ==
    /\ audioPc = "preview"
    /\ IF ok
       THEN /\ Played("preview")
            /\ audioCache' = CacheAudioData(audioCache, song.key, SpotifyData)
            /\ cachedAt' = [cachedAt EXCEPT ![song.key] = now]
            /\ UNCHANGED servedAge
       ELSE /\ audioPc' = "search"
            /\ tierLog' = Logged("preview", "error")
            /\ failedTiers' = failedTiers \cup {"preview"}
            /\ UNCHANGED <<audioCache, song, retryCount, now, cachedAt,
                           servedBy, servedAge, calls, lastInsert, inserts,
                           audioFrame>>

\* The search tier: searchSpotifyForPreview and playSpotifyPreview of what it
\* found, cached when it started; no result or an error leads to YouTube.
SearchSpotifyForPreview(ok) ==
    /\ audioPc = "search"
    /\ IF ok
       THEN /\ Played("search")
            /\ audioCache' = CacheAudioData(audioCache, song.key, SpotifyData)
            /\ cachedAt' = [cachedAt EXCEPT ![song.key] = now]
            /\ UNCHANGED servedAge
       ELSE /\ audioPc' = "youtube"
            /\ tierLog' = Logged("search", "error")
            /\ failedTiers' = failedTiers \cup {"search"}
            /\ UNCHANGED <<audioCache, song, retryCount, now, cachedAt,
                           servedBy, servedAge, calls, lastInsert, inserts,
                           audioFrame>>

\* playFromYouTube (the yt-dlp subprocess) settles: the player is returned
\* with nothing cached, or the error reaches the outer catch.
PlayFromYouTube(ok) ==
    /\ audioPc = "youtube"
    /\ IF ok
       THEN /\ Played("youtube")
            /\ UNCHANGED <<audioCache, cachedAt, servedAge>>
       ELSE OuterCatch("youtube")

\* Time passes.
Tick ==
    /\ now < MaxTime
    /\ now' = now + TickMinutes
    /\ UNCHANGED <<audioCache, audioPc, song, retryCount, cachedAt, tierLog,
                   failedTiers, servedBy, servedAge, calls, lastInsert,
                   inserts, audioFrame>>

NextAudio ==
    \/ \E s \in Songs : FindAndPlayAudio(s)
    \/ CacheLookup
    \/ \E ok \in BOOLEAN : PlayCachedAudio(ok)
    \/ \E ok \in BOOLEAN : PlaySpotifyPreview(ok)
    \/ \E ok \in BOOLEAN : SearchSpotifyForPreview(ok)
    \/ \E ok \in BOOLEAN : PlayFromYouTube(ok)
    \/ Tick

SpecAudio == Init /\ [][NextAudio]_vars

\* cacheAudioData on its own, up to and past the size limit.  The key is a
\* new one, or one the cache holds (two calls for one song can both have
\* missed the cache before either stores its result).
InsertKeys ==
    IF audioCache = <<>> THEN {1}
    ELSE {audioCache[1].key, audioCache[Len(audioCache)].key,
          1 + CHOOSE k \in {e.key : e \in Range(audioCache)} :
                  \A e \in Range(audioCache) : e.key <= k}

CacheInsert(key) ==
    /\ inserts < MaxInserts
    /\ inserts' = inserts + 1
    /\ audioCache' = CacheAudioData(audioCache, key, SpotifyData)
    /\ lastInsert' = <<[key |-> key, before |-> CacheKeys(audioCache)]>>
    /\ UNCHANGED <<audioPc, song, retryCount, now, cachedAt, tierLog,
                   failedTiers, servedBy, servedAge, calls, audioFrame>>

NextCache == \E key \in InsertKeys : CacheInsert(key)

SpecCache == Init /\ [][NextCache]_vars

\* -------------------------------------------------------- playFromYouTube
\* The playFromYouTube calls made for one round's track and the yt-dlp
\* processes they spawn, one per attempt, numbered in the order they are
\* spawned.  hasStarted, isResolved and timeout are the closure variables
\* of the current attempt (an earlier
\* attempt has set its isResolved before the next one is made, so its
\* handlers do nothing any more).  When the process emits its events, and
\* whether it exits on SIGTERM, is left open.
ytFrame == <<coreVars, tokenVars, catalogVars, guessVars, guildVars,
            otherVars>>

CurrentProcess == spawns

\* spawn('yt-dlp', ...) and the 25 s timer of the attempt.
Spawned(attempt) ==
    /\ spawns < MaxSpawns
    /\ spawns' = spawns + 1
    /\ ytState' = [ytState EXCEPT ![spawns + 1] = "running"]
    /\ ytRetryCount' = attempt
    /\ hasStarted' = FALSE
    /\ isResolved' = FALSE
    /\ timeout' = TRUE
    /\ ytPc' = "spawned"
    /\ UNCHANGED <<ytKilled, ytSignals, killTimers>>

\* The first attempt, made while the round is open.
SpawnYtDlp ==
    /\ ytPc = "idle"
    /\ ~roundResolved
    /\ Spawned(0)
    /\ UNCHANGED <<audioRetries, roundResolved, ytFrame>>

\* cleanup(): SIGTERM and the 3 s timer, unless ytDlpProcess.killed is set;
\* kill() sets it when the signal was sent, that is when the process has
\* not exited.
Cleanup(p) ==
    /\ timeout' = FALSE
    /\ IF ytKilled[p]
       THEN UNCHANGED <<ytKilled, ytSignals, killTimers>>
       ELSE /\ killTimers' = killTimers \cup {p}
            /\ IF ytState[p] = "running"
               THEN /\ ytKilled' = [ytKilled EXCEPT ![p] = TRUE]
                    /\ ytSignals' = [ytSignals EXCEPT ![p] = @ \cup {"SIGTERM"}]
               ELSE UNCHANGED <<ytKilled, ytSignals>>

\* handleRetry: the next attempt after 3 s, or the rejection.
HandleRetry ==
    /\ isResolved' = TRUE
    /\ ytPc' = IF ytRetryCount < MaxYtRetries THEN "retryWait" ELSE "rejected"

\* stdout 'data' crossing the 128 KB mark: playback starts and the promise
\* resolves, or createAudioResource / player.play throws.
StdoutData(ok) ==
    /\ ytPc = "spawned"
    /\ ytState[CurrentProcess] = "running"
    /\ ~isResolved /\ ~hasStarted
    /\ hasStarted' = TRUE
    /\ IF ok
       THEN /\ isResolved' = TRUE
            /\ ytPc' = "playing"
            /\ timeout' = FALSE
            /\ UNCHANGED <<ytKilled, ytSignals, killTimers>>
       ELSE Cleanup(CurrentProcess) /\ HandleRetry
    /\ UNCHANGED <<ytState, spawns, audioRetries, ytRetryCount, roundResolved, ytFrame>>

\* stdout 'error' other than EOF or a broken pipe.
StdoutError ==
    /\ ytPc = "spawned"
    /\ ytState[CurrentProcess] = "running"
    /\ ~hasStarted /\ ~isResolved
    /\ Cleanup(CurrentProcess)
    /\ HandleRetry
    /\ UNCHANGED <<ytState, spawns, audioRetries, ytRetryCount, hasStarted, roundResolved, ytFrame>>

\* 'close': the process has exited, by itself or on a signal.
Close(p, code) ==
    /\ ytState[p] = "running"
    /\ ytState' = [ytState EXCEPT ![p] = "exited"]
    /\ IF p = CurrentProcess /\ code # 0 /\ ~hasStarted /\ ~isResolved
       THEN /\ timeout' = FALSE
            /\ killTimers' = IF ytKilled[p] THEN killTimers
                             ELSE killTimers \cup {p}
            /\ HandleRetry
            /\ UNCHANGED <<ytKilled, ytSignals>>
       ELSE UNCHANGED <<ytKilled, ytSignals, killTimers, isResolved, ytPc,
                        timeout>>
    /\ UNCHANGED <<spawns, audioRetries, ytRetryCount, hasStarted, roundResolved, ytFrame>>

\* 'error' of the process object: cleanup() whatever the attempt's state.
ProcessError ==
    /\ ytPc \in {"spawned", "playing"}
    /\ ytState[CurrentProcess] = "running"
    /\ Cleanup(CurrentProcess)
    /\ IF isResolved THEN UNCHANGED <<isResolved, ytPc>> ELSE HandleRetry
    /\ UNCHANGED <<ytState, spawns, audioRetries, ytRetryCount, hasStarted, roundResolved, ytFrame>>

\* The 25 s timer of the attempt fires.
Timeout ==
    /\ timeout
    /\ IF ~hasStarted /\ ~isResolved
       THEN Cleanup(CurrentProcess) /\ HandleRetry
       ELSE /\ timeout' = FALSE
            /\ UNCHANGED <<ytKilled, ytSignals, killTimers, isResolved, ytPc>>
    /\ UNCHANGED <<ytState, spawns, audioRetries, ytRetryCount, hasStarted, roundResolved, ytFrame>>

\* The 3 s timer of handleRetry fires: the next attempt.
RetryTimerFires ==
    /\ ytPc = "retryWait"
    /\ Spawned(ytRetryCount + 1)
    /\ UNCHANGED <<audioRetries, roundResolved, ytFrame>>

\* The catch of findAndPlayAudio after playFromYouTube has rejected: the
\* whole process again, which for a song without a preview comes back to
\* playFromYouTube with retryCount 0.
RetryEntireProcess ==
    /\ ytPc = "rejected"
    /\ audioRetries < MaxRetries
    /\ audioRetries' = audioRetries + 1
    /\ Spawned(0)
    /\ UNCHANGED <<roundResolved, ytFrame>>

\* The 3 s timer of cleanup() fires: SIGKILL unless ytDlpProcess.killed.
KillTimerFires(p) ==
    /\ p \in killTimers
    /\ killTimers' = killTimers \ {p}
    /\ IF ~ytKilled[p] /\ ytState[p] = "running"
       THEN /\ ytKilled' = [ytKilled EXCEPT ![p] = TRUE]
            /\ ytSignals' = [ytSignals EXCEPT ![p] = @ \cup {"SIGKILL"}]
       ELSE UNCHANGED <<ytKilled, ytSignals>>
    /\ UNCHANGED <<ytState, ytPc, spawns, audioRetries, ytRetryCount, hasStarted, isResolved,
                   timeout, roundResolved, ytFrame>>

\* The timeout option of spawn: the runtime calls kill() after 30 s.
SpawnTimeout(p) ==
    /\ ytState[p] = "running"
    /\ ~ytKilled[p]
    /\ ytKilled' = [ytKilled EXCEPT ![p] = TRUE]
    /\ ytSignals' = [ytSignals EXCEPT ![p] = @ \cup {"SIGTERM"}]
    /\ UNCHANGED <<ytState, killTimers, ytPc, spawns, audioRetries, ytRetryCount, hasStarted,
                   isResolved, timeout, roundResolved, ytFrame>>

\* cleanupRound of the round the call was made for: player.stop(); the
\* process object is a local of playFromYouTube.
CleanupRound ==
    /\ ytPc # "idle"
    /\ ~roundResolved
    /\ roundResolved' = TRUE
    /\ UNCHANGED <<ytState, ytKilled, ytSignals, killTimers, ytPc,
                   spawns, audioRetries, ytRetryCount, hasStarted, isResolved, timeout, ytFrame>>

NextYt ==
    \/ SpawnYtDlp
    \/ \E ok \in BOOLEAN : StdoutData(ok)
    \/ StdoutError
    \/ \E p \in 1..MaxSpawns, code \in {0, 1} : Close(p, code)
    \/ ProcessError
    \/ Timeout
    \/ RetryTimerFires
    \/ RetryEntireProcess
    \/ \E p \in 1..MaxSpawns : KillTimerFires(p)
    \/ \E p \in 1..MaxSpawns : SpawnTimeout(p)
    \/ CleanupRound

SpecYt == Init /\ [][NextYt]_vars

\* --------------------------------------------------- SpotifyTokenManager
\* The token manager: its callers (the start of the bot, ensureValidToken
\* before a fetch, the retry of a fetch after a 401), its own timers, and
\* the token requests, each of which succeeds or fails.
tokenFrame == <<coreVars, ytVars, catalogVars, guessVars, guildVars,
               otherVars>>

Min(a, b) == IF a <= b THEN a ELSE b

\* A retry after five minutes, whatever the count.
RetryDelayFixed(n) == RetryDelayCeiling

\* Math.min(Math.pow(2, retryCount) * 1000, 5 * 60 * 1000)
RetryDelay(n) == Min((2 ^ n) * RetryDelayUnit, RetryDelayCeiling)

\* setTimeout stored in tokenRefreshTimeout; cleared tells whether
\* clearTimeout(this.tokenRefreshTimeout) ran just before.
SetRefreshTimeout(cleared) ==
    /\ tokenRefreshTimeout' = TRUE
    /\ strayTimers' = strayTimers
                      + (IF tokenRefreshTimeout /\ ~cleared THEN 1 ELSE 0)

\* getSpotifyAccessToken without the isRefreshing test.
GetSpotifyAccessTokenUnguarded ==
    /\ isRefreshing' = TRUE
    /\ grants' = grants + 1
    /\ UNCHANGED waiters

\* getSpotifyAccessToken up to its await: a caller that finds a refresh in
\* progress waits for it, any other starts the request.
GetSpotifyAccessToken ==
    IF isRefreshing
    THEN /\ waiters < MaxWaiters
         /\ waiters' = waiters + 1
         /\ UNCHANGED <<isRefreshing, grants>>
    ELSE /\ isRefreshing' = TRUE
         /\ grants' = grants + 1
         /\ UNCHANGED waiters

\* A call from outside: getSpotifyAccessToken itself, or ensureValidToken,
\* which calls it when the token is missing or about to expire.
TokenCall(ensure) ==
    /\ IF ensure /\ tokenValid
       THEN UNCHANGED <<isRefreshing, grants, waiters>>
       ELSE GetSpotifyAccessToken
    /\ UNCHANGED <<tokenRetryCount, tokenRefreshTimeout, strayTimers,
                   tokenValid, failures, lastDelay, fatal, tokenFrame>>

\* The timer tokenRefreshTimeout names fires and calls getSpotifyAccessToken.
RefreshTimeoutFires ==
    /\ tokenRefreshTimeout
    /\ tokenRefreshTimeout' = FALSE
    /\ GetSpotifyAccessToken
    /\ UNCHANGED <<tokenRetryCount, strayTimers, tokenValid, failures,
                   lastDelay, fatal, tokenFrame>>

\* clientCredentialsGrant settles: the rest of the try block, or the catch.
GrantSettles(ok) ==
    /\ grants > 0
    /\ grants' = grants - 1
    /\ isRefreshing' = FALSE
    /\ IF ok
       THEN /\ tokenValid' = TRUE
            /\ tokenRetryCount' = 0
            /\ SetRefreshTimeout(TRUE)
            /\ failures' = 0
            /\ lastDelay' = 0
            /\ fatal' = FALSE
       ELSE /\ failures < MaxFailures
            /\ failures' = failures + 1
            /\ tokenRetryCount' = tokenRetryCount + 1
            /\ UNCHANGED tokenValid
            /\ IF tokenRetryCount + 1 < MaxTokenRetries
               THEN /\ SetRefreshTimeout(TRUE)
                    /\ lastDelay' = RetryDelay(tokenRetryCount + 1)
                    /\ fatal' = FALSE
               ELSE /\ tokenRefreshTimeout' = FALSE
                    /\ UNCHANGED strayTimers
                    /\ lastDelay' = 0
                    /\ fatal' = TRUE
    /\ UNCHANGED <<waiters, tokenFrame>>

\* waitForRefresh sees isRefreshing false at one of its 100 ms polls.
WaitForRefresh ==
    /\ waiters > 0
    /\ ~isRefreshing
    /\ waiters' = waiters - 1
    /\ UNCHANGED <<isRefreshing, tokenRetryCount, tokenRefreshTimeout,
                   strayTimers, tokenValid, grants, failures, lastDelay,
                   fatal, tokenFrame>>

\* Date.now() reaches tokenExpiresAt - 60000.
TokenExpires ==
    /\ tokenValid
    /\ tokenValid' = FALSE
    /\ UNCHANGED <<isRefreshing, tokenRetryCount, tokenRefreshTimeout,
                   strayTimers, grants, waiters, failures, lastDelay, fatal,
                   tokenFrame>>

NextToken ==
    \/ \E ensure \in BOOLEAN : TokenCall(ensure)
    \/ RefreshTimeoutFires
    \/ \E ok \in BOOLEAN : GrantSettles(ok)
    \/ WaitForRefresh
    \/ TokenExpires

SpecToken == Init /\ [][NextToken]_vars

\* --------------------------------------------------- fetchSpotifyPlaylist
\* The end of fetchSpotifyPlaylist: the dedup loop over the tracks fetched,
\* a step per track, and the sort.  A string is the sequence of its
\* characters; pos is the place of a track in fetch order.
catalogFrame == <<coreVars, ytVars, tokenVars, guessVars, guildVars,
                 otherVars>>

LowerChar(c) == CASE c = "A" -> "a" [] c = "B" -> "b" [] OTHER -> c

ToLowerCase(str) == [i \in DOMAIN str |-> LowerChar(str[i])]

FetchedTitles == {<<"a">>, <<"A">>, <<"a", "-">>}
FetchedArtists == {<<"b">>, <<"B">>, <<"-", "b">>}

TracksAt(pos) ==
    [title : FetchedTitles, artist : FetchedArtists,
     popularity : 0..MaxPopularity, pos : {pos}]

InitCatalog ==
    /\ InitSession /\ OptionsIdle /\ ScoreIdle /\ VoiceIdle /\ AudioIdle
    /\ YtIdle /\ TokenIdle /\ GuessIdle /\ GuildIdle /\ OthersIdle
    /\ \E n \in 0..MaxFetched :
         fetchedTracks \in {f \in [1..n -> UNION {TracksAt(pos) : pos \in 1..n}] :
                               \A pos \in 1..n : f[pos].pos = pos}
    /\ uniqueTracks = <<>>
    /\ seen = {}
    /\ catalogPc = 1

\* `${track.title.toLowerCase()}-${track.artist.toLowerCase()}`
TrackKey(track) ==
    ToLowerCase(track.title) \o <<"-">> \o ToLowerCase(track.artist)

\* One iteration of `for (const track of allTracks)`.
DedupTrack ==
    /\ catalogPc \in 1..Len(fetchedTracks)
    /\ LET track == fetchedTracks[catalogPc]
       IN  IF TrackKey(track) \notin seen
           THEN /\ seen' = seen \cup {TrackKey(track)}
                /\ uniqueTracks' = Append(uniqueTracks, track)
           ELSE UNCHANGED <<seen, uniqueTracks>>
    /\ catalogPc' = catalogPc + 1
    /\ UNCHANGED <<fetchedTracks, catalogFrame>>

\* Array.prototype.sort with (a, b) => b.popularity - a.popularity: stable,
\* the more popular first.
RECURSIVE SortByPopularity(_, _)
SortByPopularity(list, level) ==
    IF level < 0 THEN <<>>
    ELSE SelectSeq(list, LAMBDA t : t.popularity = level)
         \o SortByPopularity(list, level - 1)

SortUniqueTracks ==
    /\ catalogPc = Len(fetchedTracks) + 1
    /\ uniqueTracks' = SortByPopularity(uniqueTracks, MaxPopularity)
    /\ catalogPc' = Undefined
    /\ UNCHANGED <<fetchedTracks, seen, catalogFrame>>

NextCatalog == DedupTrack \/ SortUniqueTracks

SpecCatalog == InitCatalog /\ [][NextCatalog]_vars

\* ----------------------------------------------------- calculateSimilarity
\* calculateSimilarity and the open-answer branch of the message handler
\* that calls it (src/index.js; the copy of calculateSimilarity there lacks
\* only the Math.max(0, ...)).  A string is the sequence of its characters,
\* over an alphabet with a letter in both cases, a second letter, a
\* punctuation mark, a space and a letter outside ASCII (written "e-acute"
\* here).  A similarity is the fraction <<numerator, denominator>>.
guessFrame == <<coreVars, ytVars, tokenVars, catalogVars, guildVars,
               otherVars>>

Chars == {"a", "A", "b", "!", " ", "e-acute"}

\* \w and \s of a regular expression without the u flag, after lowercasing.
WordChars == {"a", "b"}
SpaceChars == {" "}

Strings(n) == UNION {[1..k -> Chars] : k \in 0..n}

RECURSIVE TrimStart(_)
TrimStart(str) ==
    IF str # <<>> /\ Head(str) \in SpaceChars THEN TrimStart(Tail(str))
    ELSE str

RECURSIVE TrimEnd(_)
TrimEnd(str) ==
    IF str # <<>> /\ str[Len(str)] \in SpaceChars
    THEN TrimEnd(SubSeq(str, 1, Len(str) - 1))
    ELSE str

\* str.toLowerCase().replace(/[^\w\s]/g, '').trim()
Normalize(str) ==
    TrimEnd(TrimStart(SelectSeq(ToLowerCase(str),
                                LAMBDA c : c \in WordChars \cup SpaceChars)))

\* String.prototype.includes
Includes(str, part) ==
    \E i \in 0..(Len(str) - Len(part)) : SubSeq(str, i + 1, i + Len(part)) = part

\* matrix[j][i] of levenshteinDistance(str1, str2)
RECURSIVE Matrix(_, _, _, _)
Matrix(str1, str2, j, i) ==
    IF j = 0 THEN i
    ELSE IF i = 0 THEN j
    ELSE LET cost == IF str1[i] = str2[j] THEN 0 ELSE 1
         IN  Min(Min(Matrix(str1, str2, j, i - 1) + 1,
                     Matrix(str1, str2, j - 1, i) + 1),
                 Matrix(str1, str2, j - 1, i - 1) + cost)

LevenshteinDistance(str1, str2) == Matrix(str1, str2, Len(str2), Len(str1))

\* calculateSimilarity; 1 - distance / maxLength is the fraction
\* (maxLength - distance) / maxLength, and a denominator of 0 is a division
\* by zero.
CalculateSimilarity(g, correct) ==
    LET guessNorm == Normalize(g)
        correctNorm == Normalize(correct)
        distance == LevenshteinDistance(guessNorm, correctNorm)
        maxLength == Max(Len(guessNorm), Len(correctNorm))
    IN  IF guessNorm = correctNorm THEN <<1, 1>>
        ELSE IF Includes(guessNorm, correctNorm)
                \/ Includes(correctNorm, guessNorm) THEN <<4, 5>>
        ELSE <<Max(0, maxLength - distance), maxLength>>

\* similarity > num / den
Exceeds(similarity, num, den) ==
    similarity[1] * den > num * similarity[2]

\* A title and an artist as fetchSpotifyPlaylist stores them: trimmed and
\* not empty.
InitGuess ==
    /\ InitSession /\ OptionsIdle /\ ScoreIdle /\ VoiceIdle /\ AudioIdle
    /\ YtIdle /\ TokenIdle /\ CatalogIdle /\ GuildIdle /\ OthersIdle
    /\ guess \in Strings(MaxNameLen) \ {<<>>}
    /\ songTitle \in {str \in Strings(MaxNameLen) :
                        str # <<>> /\ TrimEnd(TrimStart(str)) = str}
    /\ songArtist = <<"b">>
    /\ titleSimilarity = <<0, 1>>
    /\ artistSimilarity = <<0, 1>>
    /\ verdict = "none"
    /\ guessPc = "guess"

\* The two calls of the open-answer branch.
CompareGuess ==
    /\ guessPc = "guess"
    /\ titleSimilarity' = CalculateSimilarity(guess, songTitle)
    /\ artistSimilarity' = CalculateSimilarity(guess, songArtist)
    /\ guessPc' = "compared"
    /\ UNCHANGED <<guess, songTitle, songArtist, verdict, guessFrame>>

\* The branch taken: the guess is credited, or answered with a reaction, or
\* ignored.
ClassifyGuess ==
    /\ guessPc = "compared"
    /\ verdict' =
         IF Exceeds(titleSimilarity, 8, 10) \/ Exceeds(artistSimilarity, 8, 10)
         THEN "correct"
         ELSE IF Exceeds(titleSimilarity, 5, 10)
                 \/ Exceeds(artistSimilarity, 5, 10)
         THEN "fire"
         ELSE IF Exceeds(titleSimilarity, 3, 10)
                 \/ Exceeds(artistSimilarity, 3, 10)
         THEN "thumbs_up"
         ELSE "none"
    /\ guessPc' = "done"
    /\ UNCHANGED <<guess, songTitle, songArtist, titleSimilarity,
                   artistSimilarity, guessFrame>>

NextGuess == CompareGuess \/ ClassifyGuess

SpecGuess == InitGuess /\ [][NextGuess]_vars

\* ----------------------------------------------------- playSpotifyPreview
\* One preview fetch: the request, the 15 s timer set with it, the response
\* and its body.  The clock does not pass a pending timer; what the server
\* sends, and when, is left open.
previewFrame == <<coreVars, ytVars, tokenVars, catalogVars, guessVars,
                  guildVars, voteVars, clockVars, playersVars>>

\* https.get and the setTimeout before it.
PreviewRequest ==
    /\ previewPc = "idle"
    /\ previewPc' = "requested"
    /\ previewTimer' = previewNow + SpotifyPreviewTimeout
    /\ UNCHANGED <<previewNow, redirects, chunks, previewFrame>>

PreviewTime ==
    /\ previewPc \in {"requested", "body"}
    /\ previewNow + PreviewTick <= MaxPreviewTime
    /\ previewTimer # Null => previewNow + PreviewTick <= previewTimer
    /\ previewNow' = previewNow + PreviewTick
    /\ UNCHANGED <<previewPc, previewTimer, redirects, chunks, previewFrame>>

\* The timer fires: request.destroy() and the rejection.
PreviewTimeoutFires ==
    /\ previewTimer # Null
    /\ previewNow = previewTimer
    /\ previewTimer' = Null
    /\ previewPc' = "failed"
    /\ UNCHANGED <<previewNow, redirects, chunks, previewFrame>>

\* The response callback: clearTimeout, then a redirect is followed by a
\* call of its own, any status but 200 rejects, and 200 starts the body.
PreviewResponse(statusCode) ==
    /\ previewPc = "requested"
    /\ IF statusCode >= 300 /\ statusCode < 400
       THEN /\ redirects < MaxRedirects
            /\ redirects' = redirects + 1
            /\ previewTimer' = previewNow + SpotifyPreviewTimeout
            /\ UNCHANGED previewPc
       ELSE /\ previewTimer' = Null
            /\ previewPc' = IF statusCode = 200 THEN "body" ELSE "failed"
            /\ UNCHANGED redirects
    /\ UNCHANGED <<previewNow, chunks, previewFrame>>

\* response 'data'.
PreviewData ==
    /\ previewPc = "body"
    /\ chunks < MaxChunks
    /\ chunks' = chunks + 1
    /\ UNCHANGED <<previewPc, previewNow, previewTimer, redirects,
                   previewFrame>>

\* response 'end': player.play and resolve, or the rejection when
\* createAudioResource throws.
PreviewEnd(ok) ==
    /\ previewPc = "body"
    /\ previewPc' = IF ok THEN "playing" ELSE "failed"
    /\ UNCHANGED <<previewNow, previewTimer, redirects, chunks, previewFrame>>

\* response 'error'.
PreviewResponseError ==
    /\ previewPc = "body"
    /\ previewPc' = "failed"
    /\ UNCHANGED <<previewNow, previewTimer, redirects, chunks, previewFrame>>

\* request 'error': clearTimeout and the rejection.
PreviewRequestError ==
    /\ previewPc = "requested"
    /\ previewTimer' = Null
    /\ previewPc' = "failed"
    /\ UNCHANGED <<previewNow, redirects, chunks, previewFrame>>

NextPreview ==
    \/ PreviewRequest
    \/ PreviewTime
    \/ PreviewTimeoutFires
    \/ \E statusCode \in StatusCodes : PreviewResponse(statusCode)
    \/ PreviewData
    \/ \E ok \in BOOLEAN : PreviewEnd(ok)
    \/ PreviewResponseError
    \/ PreviewRequestError

SpecPreview == Init /\ [][NextPreview]_vars

\* ------------------------------------------------------------ skip votes
\* The `!skip` command of index.js with the people who join and leave the
\* voice channel and the rounds that begin and end around it.
voteFrame == <<coreVars, ytVars, tokenVars, catalogVars, guessVars,
               guildVars, previewVars, clockVars, playersVars>>

Members == 1..MaxMembers

\* Math.ceil(n / 2)
CeilHalf(n) == (n + 1) \div 2

\* requiredVotes(channel)
RequiredVotes(channel) == CeilHalf(Cardinality(channel))

MemberJoins(u) ==
    /\ u \notin voiceMembers
    /\ voiceMembers' = voiceMembers \cup {u}
    /\ UNCHANGED <<skipVotes, roundActive, roundVoters, skipOutcome, voteFrame>>

MemberLeaves(u) ==
    /\ u \in voiceMembers
    /\ voiceMembers' = voiceMembers \ {u}
    /\ UNCHANGED <<skipVotes, roundActive, roundVoters, skipOutcome, voteFrame>>

\* A round begins: isPlaying becomes true.
VoteRoundBegins ==
    /\ ~roundActive
    /\ roundActive' = TRUE
    /\ roundVoters' = {}
    /\ skipOutcome' = "none"
    /\ UNCHANGED <<skipVotes, voiceMembers, voteFrame>>

\* A round ends by an answer or by its timer: cleanupRound.
VoteRoundEnds ==
    /\ roundActive
    /\ roundActive' = FALSE
    /\ UNCHANGED <<skipVotes, voiceMembers, roundVoters, skipOutcome,
                   voteFrame>>

\* `!skip` from userId.  The vote is added before the voice channel of the
\* author is looked at; for an author in no voice channel requiredVotes
\* throws on the undefined channel.
SkipCommand(userId) ==
    /\ roundActive
    /\ userId \notin skipVotes
    /\ roundVoters' = roundVoters \cup {userId}
    /\ IF userId \in voiceMembers
          /\ Cardinality(skipVotes \cup {userId}) >= RequiredVotes(voiceMembers)
       THEN /\ skipVotes' = {}
            /\ roundActive' = FALSE
            /\ skipOutcome' = "skipped"
       ELSE /\ skipVotes' = skipVotes \cup {userId}
            /\ UNCHANGED <<roundActive, skipOutcome>>
    /\ UNCHANGED <<voiceMembers, voteFrame>>

NextVotes ==
    \/ \E u \in Members : MemberJoins(u)
    \/ \E u \in Members : MemberLeaves(u)
    \/ VoteRoundBegins
    \/ VoteRoundEnds
    \/ \E userId \in Members : SkipCommand(userId)

SpecVotes == Init /\ [][NextVotes]_vars

\* ------------------------------------------------- one round on the clock
\* One round from startNextRound to its resolution, against Date.now():
\* roundStartTime is read before the menu is sent and playRoundAudio is
\* awaited, the countdown is armed when playRoundAudio has returned, and
\* the setup buttons stay usable all along.
clockFrame == <<coreVars, ytVars, tokenVars, catalogVars, guessVars,
                guildVars, previewVars, voteVars, playersVars>>

\* startNextRound up to the await of playRoundAudio.
ClockRoundStarts ==
    /\ clockPc = "idle"
    /\ clockPc' = "audio"
    /\ roundStartTime' = clockNow
    /\ UNCHANGED <<clockNow, clockDifficulty, armedAt, armedLimit, elapsedMs,
                   clockFrame>>

\* Time passes: while the audio is being found and started, and up to the
\* moment the countdown is due.
ClockTime ==
    /\ clockPc \in {"audio", "armed"}
    /\ clockPc = "audio"
         => clockNow + ClockTick <= roundStartTime + MaxAudioDelay
    /\ clockPc = "armed" => clockNow + ClockTick <= armedAt + armedLimit
    /\ clockNow' = clockNow + ClockTick
    /\ UNCHANGED <<clockPc, roundStartTime, clockDifficulty, armedAt,
                   armedLimit, elapsedMs, clockFrame>>

\* playRoundAudio has returned: setTimeout(..., gameState.timeLimit).
ArmCountdown ==
    /\ clockPc = "audio"
    /\ clockPc' = "armed"
    /\ armedAt' = clockNow
    /\ armedLimit' = TimeLimitOf(clockDifficulty)
    /\ UNCHANGED <<clockNow, roundStartTime, clockDifficulty, elapsedMs,
                   clockFrame>>

\* handleSetupButton for setup_difficulty.
ClockSetupButton ==
    /\ clockPc # "resolved"
    /\ clockDifficulty' = NextDifficulty(clockDifficulty)
    /\ UNCHANGED <<clockPc, clockNow, roundStartTime, armedAt, armedLimit,
                   elapsedMs, clockFrame>>

\* handleMultipleChoiceAnswer for the correct option, before the countdown
\* is due: guessTime = Date.now() - roundStartTime, and the round resolves.
ClockAnswer ==
    /\ clockPc \in {"audio", "armed"}
    /\ clockPc = "armed" => clockNow < armedAt + armedLimit
    /\ elapsedMs' = clockNow - roundStartTime
    /\ clockPc' = "resolved"
    /\ UNCHANGED <<clockNow, roundStartTime, clockDifficulty, armedAt,
                   armedLimit, clockFrame>>

\* The countdown fires and skipCurrentRound resolves the round.
ClockCountdownFires ==
    /\ clockPc = "armed"
    /\ clockNow >= armedAt + armedLimit
    /\ clockPc' = "resolved"
    /\ UNCHANGED <<clockNow, roundStartTime, clockDifficulty, armedAt,
                   armedLimit, elapsedMs, clockFrame>>

NextClock ==
    \/ ClockRoundStarts
    \/ ClockTime
    \/ ArmCountdown
    \/ ClockSetupButton
    \/ ClockAnswer
    \/ ClockCountdownFires

SpecClock == Init /\ [][NextClock]_vars

\* ------------------------------------------------ the players of a round
\* The audio players findAndPlayAudio creates for one round: by the call
\* playRoundAudio awaits, by the retries of its catch block, and by the
\* retries the 'error' handler of a player starts from a timer.  One pass
\* of the loop of playRoundAudio is followed.
playersFrame == <<coreVars, ytVars, tokenVars, catalogVars, guessVars,
                  guildVars, previewVars, voteVars, clockVars>>

\* createAudioPlayer(), connection.subscribe(player), player.on('error'),
\* in a call with this retryCount made this way.
CreatePlayer(retry, how) ==
    /\ Len(playerState) < MaxPlayers
    /\ playerState' = Append(playerState, "idle")
    /\ playerRetry' = Append(playerRetry, retry)
    /\ finding' = Append(finding, how)
    /\ listening' = listening \cup {Len(playerState) + 1}

\* playRoundAudio calls findAndPlayAudio for the round's song.
PlayersRoundBegins ==
    /\ playersPc = "idle"
    /\ playersPc' = "finding"
    /\ CreatePlayer(0, "awaited")
    /\ UNCHANGED <<retryTimers, playerHandle, playersResolved, simplified,
                   playersFrame>>

\* A call starts playback on its player and returns it; playRoundAudio
\* stores what the call it awaits returns in gameState.player.
FindSucceeds(p) ==
    /\ finding[p] # "none"
    /\ finding' = [finding EXCEPT ![p] = "none"]
    /\ playerState' = [playerState EXCEPT ![p] = "playing"]
    /\ IF finding[p] = "awaited"
       THEN /\ playerHandle' = p
            /\ playersPc' = "returned"
       ELSE UNCHANGED <<playerHandle, playersPc>>
    /\ UNCHANGED <<playerRetry, listening, retryTimers, playersResolved,
                   simplified, playersFrame>>

\* Every tier of a call fails: its catch calls findAndPlayAudio again
\* while retryCount < MAX_RETRIES, and throws otherwise; playRoundAudio
\* answers the throw of its first call with a call for simplifiedSong.
FindThrows(p) ==
    /\ finding[p] # "none"
    /\ IF \/ playerRetry[p] < MaxRetries
          \/ (finding[p] = "awaited" /\ ~simplified)
       THEN /\ Len(playerState) < MaxPlayers
            /\ playerState' = Append(playerState, "idle")
            /\ playerRetry' = Append(playerRetry,
                                     IF playerRetry[p] < MaxRetries
                                     THEN playerRetry[p] + 1 ELSE 0)
            /\ finding' = Append([finding EXCEPT ![p] = "none"], finding[p])
            /\ listening' = listening \cup {Len(playerState) + 1}
            /\ simplified' = (simplified \/ playerRetry[p] = MaxRetries)
            /\ UNCHANGED playersPc
       ELSE /\ finding' = [finding EXCEPT ![p] = "none"]
            /\ playersPc' = IF finding[p] = "awaited" THEN "failed"
                            ELSE playersPc
            /\ UNCHANGED <<playerState, playerRetry, listening, simplified>>
    /\ UNCHANGED <<retryTimers, playerHandle, playersResolved, playersFrame>>

\* A playing player emits 'error': its handler sets the 2 s timer while
\* retryCount < MAX_RETRIES.
PlayerError(p) ==
    /\ playerState[p] = "playing"
    /\ playerState' = [playerState EXCEPT ![p] = "idle"]
    /\ retryTimers' = IF p \in listening /\ playerRetry[p] < MaxRetries
                      THEN retryTimers \cup {p} ELSE retryTimers
    /\ UNCHANGED <<playerRetry, finding, listening, playerHandle, playersPc,
                   playersResolved, simplified, playersFrame>>

\* The audio of a playing player ends: AudioPlayerStatus.Idle, which is
\* logged.
PlaybackCompleted(p) ==
    /\ playerState[p] = "playing"
    /\ playerState' = [playerState EXCEPT ![p] = "idle"]
    /\ UNCHANGED <<playerRetry, finding, listening, retryTimers, playerHandle,
                   playersPc, playersResolved, simplified, playersFrame>>

\* The timer fires: findAndPlayAudio(connection, song, spotifyApi,
\* retryCount + 1), whose result nobody receives.
PlayerRetryTimerFires(p) ==
    /\ p \in retryTimers
    /\ retryTimers' = retryTimers \ {p}
    /\ CreatePlayer(playerRetry[p] + 1, "detached")
    /\ UNCHANGED <<playerHandle, playersPc, playersResolved, simplified,
                   playersFrame>>

\* cleanupRound: gameState.player is stopped, loses its listeners and is
\* forgotten.
PlayersCleanupRound ==
    /\ playersPc # "idle"
    /\ ~playersResolved
    /\ playersResolved' = TRUE
    /\ playerHandle' = Null
    /\ playerState' = IF playerHandle = Null THEN playerState
                      ELSE [playerState EXCEPT ![playerHandle] = "stopped"]
    /\ listening' = listening \ {playerHandle}
    /\ UNCHANGED <<playerRetry, finding, retryTimers, playersPc,
                   simplified, playersFrame>>

NextPlayers ==
    \/ PlayersRoundBegins
    \/ \E p \in DOMAIN playerState : FindSucceeds(p)
    \/ \E p \in DOMAIN playerState : FindThrows(p)
    \/ \E p \in DOMAIN playerState : PlayerError(p)
    \/ \E p \in DOMAIN playerState : PlaybackCompleted(p)
    \/ \E p \in DOMAIN playerState : PlayerRetryTimerFires(p)
    \/ PlayersCleanupRound

SpecPlayers == Init /\ [][NextPlayers]_vars

\* ------------------------------------------------------------ the program
Next ==
    \/ \E n \in 1..MaxTracks : HandleFetchCommand(n)
    \/ \E n \in 0..MaxTracks : HandleFetchCategoryCommand(n)
    \/ \E arg \in StartArgs : HandleStartGameCommand(arg)
    \/ HandleStartGame
    \/ StartTimerFires
    \/ \E voiceChannel \in BOOLEAN : NextTimerFires(voiceChannel)
    \/ \E ok \in BOOLEAN : PlayRoundAudioReturns(ok)
    \/ RoundTimerFires
    \/ OrphanTimerFires
    \/ SkipTimerFires
    \/ \E u \in Users, g \in GuessTimes : HandleMultipleChoiceAnswer(u, g)
    \/ ReplySent
    \/ SetupMode
    \/ SetupDifficulty
    \/ SetupRounds
    \/ StaleCleanup

Spec == Init /\ [][Next]_vars

\* ------------------------------------------------------------------ guilds
\* The handlers above with the guild their message or interaction comes
\* from.  gameState is one object for the whole process; the timers and the
\* suspended handlers of the session run as they do above.
guildFrame == <<optionVars, scoreVars, voiceVars, audioVars, ytVars,
                tokenVars, catalogVars, guessVars, otherVars>>

\* handleFetchCommand for a `!fetch` sent in guild g.
FetchIn(g, n) ==
    /\ ~crashed
    /\ n > 0
    /\ tracks' = Playlist(n)
    /\ usedTracks' = {}
    /\ playCount' = NoPlays
    /\ eventGuild' = g
    /\ UNCHANGED <<isPlaying, currentRound, totalRounds, playerScores,
                   currentSong, currentOptions, timeLimit, difficulty,
                   gameMode, taskVars, roundOpen, roundCredits, roundSkips,
                   liveSessions, gameOvers, endedSessions, presses, summary, ownCall,
                   ownTimer, handleVars, gameChannel, guildFrame>>

\* handleStartGameCommand for a `!start` sent in guild g; initializeGame
\* takes context.channel as gameChannel.
StartCommandIn(g, arg) ==
    /\ ~crashed
    /\ ~isPlaying
    /\ Len(tracks) # 0
    /\ totalRounds' = IF arg >= MinRoundsArg /\ arg <= MaxRoundsArg
                      THEN arg ELSE totalRounds
    /\ InitializeGame
    /\ gameChannel' = g
    /\ eventGuild' = g
    /\ UNCHANGED guildFrame

\* handleStartGame for a start_game button pressed in guild g.
StartButtonIn(g) ==
    /\ ~crashed
    /\ Len(tracks) # 0
    /\ UNCHANGED totalRounds
    /\ InitializeGame
    /\ gameChannel' = g
    /\ eventGuild' = g
    /\ UNCHANGED guildFrame

\* handleSetupButton for a setup button pressed in guild g.
SetupButtonIn(g, action) ==
    /\ ~crashed
    /\ presses < MaxPresses
    /\ presses' = presses + 1
    /\ gameMode' = IF action # "mode" THEN gameMode
                   ELSE IF gameMode = "multiple_choice" THEN "open_answer"
                   ELSE "multiple_choice"
    /\ difficulty' = IF action = "difficulty" THEN NextDifficulty(difficulty)
                     ELSE difficulty
    /\ timeLimit' = IF action = "difficulty"
                    THEN TimeLimitOf(NextDifficulty(difficulty))
                    ELSE timeLimit
    /\ totalRounds' = IF action = "rounds" THEN NextTotalRounds(totalRounds)
                      ELSE totalRounds
    /\ eventGuild' = g
    /\ UNCHANGED <<isPlaying, currentRound, playerScores, usedTracks, tracks,
                   currentSong, currentOptions, taskVars, roundOpen,
                   roundCredits, roundSkips, liveSessions, gameOvers, endedSessions,
                   playCount, summary, ownCall, ownTimer, handleVars,
                   gameChannel, guildFrame>>

\* handleInteraction / handleMultipleChoiceAnswer for the correct option
\* selected in guild g, up to the await of the reply.
AnswerIn(g, userId, guessTime) ==
    /\ ~crashed
    /\ isPlaying
    /\ currentOptions # Null
    /\ Tasks < MaxTasks
    /\ playerScores[userId] + Points(timeLimit, guessTime) <= MaxScore
    /\ playerScores' = CreditScore(playerScores, userId, timeLimit, guessTime)
    /\ roundCredits' = roundCredits + 1
    /\ replying' = IF currentSong \in {Null, Undefined} THEN replying
                   ELSE replying + 1
    /\ eventGuild' = g
    /\ UNCHANGED <<isPlaying, currentRound, totalRounds, usedTracks, tracks,
                   currentSong, currentOptions, timeLimit, difficulty,
                   gameMode, timerArmed, orphanTimers, startTimers,
                   nextTimers, skipTimers, starting, crashed, roundOpen,
                   roundSkips, liveSessions, gameOvers, endedSessions, presses, playCount,
                   summary, ownCall, ownTimer, handleVars, gameChannel,
                   guildFrame>>

NextGuilds ==
    \/ \E g \in Guilds, n \in 1..MaxTracks : FetchIn(g, n)
    \/ \E g \in Guilds, arg \in StartArgs : StartCommandIn(g, arg)
    \/ \E g \in Guilds : StartButtonIn(g)
    \/ \E g \in Guilds, action \in SetupActions : SetupButtonIn(g, action)
    \/ \E g \in Guilds, u \in Users, t \in GuessTimes : AnswerIn(g, u, t)
    \/ StartTimerFires
    \/ \E voiceChannel \in BOOLEAN : NextTimerFires(voiceChannel)
    \/ \E ok \in BOOLEAN : PlayRoundAudioReturns(ok)
    \/ RoundTimerFires
    \/ OrphanTimerFires
    \/ SkipTimerFires
    \/ ReplySent
    \/ StaleCleanup

SpecGuilds == Init /\ [][NextGuilds]_vars

\* ================================================================= claims

\* C1: while the handler of a credited correct answer is still awaiting its
\* reply, no further answer of the same round raises any score.
C1_SecondAnswerNotCredited ==
    [][(replying > 0 /\ currentRound' = currentRound)
         => \A u \in Users : playerScores'[u] <= playerScores[u]]_vars

\* C2: a round has one outcome: no round is both credited to a guesser and
\* skipped, and no round is skipped twice.
C2_OneOutcomePerRound ==
    roundSkips + (IF roundCredits > 0 THEN 1 ELSE 0) <= 1

\* C3: within one session a resolved round schedules one successor
\* transition, and startNextRound runs for one round at a time.
C3_OneSuccessorPerRound ==
    liveSessions <= 1 => (nextTimers <= 1 /\ starting <= 1)

\* C4: no start is accepted while a session is in progress: there is never
\* more than one live session.
C4_OneLiveSession == liveSessions <= 1

\* C5: a session that was started once sends its game-over summary only when
\* currentRound has reached totalRounds and no round is unresolved.
C5_EndOnlyAfterLastRound ==
    [][(liveSessions = 1 /\ gameOvers' > gameOvers)
         => (currentRound' >= totalRounds' /\ ~roundOpen)]_vars

\* C6: while a round is in progress, 1 <= currentRound <= totalRounds.
C6_RoundIndexInRange ==
    roundOpen => (1 <= currentRound /\ currentRound <= totalRounds)

\* C7: every round start picks an index outside usedTracks (as it is after
\* the reset of an exhausted set) and adds it; so, from a start or a fetch
\* on, no index is picked a second time while another is still unpicked.
C7_RoundStarts ==
    /\ currentRound' = currentRound + 1
    /\ currentRound' <= totalRounds

C7_PicksUnusedIndex ==
    \E i \in (IF AllIndices = {} THEN {Undefined} ELSE AllIndices) :
        /\ i \notin UsedAfterReset
        /\ usedTracks' = UsedAfterReset \cup {i}
        /\ currentSong' = (IF i = Undefined THEN Undefined ELSE tracks[i + 1])

C7_NoRepeatBeforeAllPlayed ==
    \A i, j \in AllIndices : playCount[i] >= 2 => playCount[j] >= 1

C7_FreshTrackEachRound ==
    /\ [][C7_RoundStarts => C7_PicksUnusedIndex]_vars
    /\ []C7_NoRepeatBeforeAllPlayed

\* A two-track list whose first cycle is over: one track has been played a
\* second time.
C7_Witness ==
    /\ Len(tracks) = 2
    /\ \E i \in AllIndices : playCount[i] = 2

\* C8: usedTracks holds only valid indices of the current track list.
C8_UsedWithinTrackList == usedTracks \subseteq AllIndices

\* C9: for a list with at least 4 distinct entries the call returns 4
\* options with pairwise distinct labels and values, exactly one of them
\* marked correct, and that one is the correct track.
DistinctEntries ==
    {<<allTracks[i].title, allTracks[i].artist>> : i \in DOMAIN allTracks}

C9_FourOptionsOneCorrect ==
    (optionsPc = "done" /\ Cardinality(DistinctEntries) >= OptionCount) =>
        /\ Len(menu) = OptionCount
        /\ \A a, b \in DOMAIN menu :
             a # b => (menu[a].label # menu[b].label
                       /\ menu[a].value # menu[b].value)
        /\ Cardinality({k \in DOMAIN menu : menu[k].isCorrect}) = 1
        /\ \A k \in DOMAIN menu : menu[k].isCorrect => options[k] = correctSong

\* A list of 4 distinct entries in which fewer than 3 wrong options could be
\* drawn, so that a placeholder fills the menu.
C9_Witness ==
    /\ optionsPc = "done"
    /\ Cardinality(DistinctEntries) >= OptionCount
    /\ \E k \in DOMAIN options : options[k].id < 0

\* C10: a credited answer raises the guesser's score, and nobody else's, by
\* max(1, floor(max(1, floor((limit - elapsed) / 1000)) / 3) + 1); the gain
\* lies in 1 .. floor(limit / 3000) + 1, and no later guess gains more.
C10_Gain ==
    scoreBoard[lastCredit[1].userId] - lastCredit[1].before[lastCredit[1].userId]

C10_PointsFormula ==
    lastCredit # <<>> =>
        /\ C10_Gain =
             Max(1, (Max(1, (scoreLimit - lastCredit[1].guessTime) \div 1000)
                     \div 3) + 1)
        /\ 1 <= C10_Gain
        /\ C10_Gain <= (scoreLimit \div 3000) + 1
        /\ \A g \in SampleGuessTimes :
             g >= lastCredit[1].guessTime => Points(scoreLimit, g) <= C10_Gain
        /\ \A u \in Users \ {lastCredit[1].userId} :
             scoreBoard[u] = lastCredit[1].before[u]

\* An immediate answer at the longest limit: the largest gain, 16 points.
C10_Witness ==
    /\ lastCredit # <<>>
    /\ lastCredit[1].guessTime = 0
    /\ scoreLimit = TimeLimitOf("easy")
    /\ C10_Gain = 16

\* C14: once endGame has run, and until a new session is started, isPlaying
\* is false, the player and connection handles are null, no round is open
\* and no round timer is armed.
C14_NothingAfterEnded ==
    (gameOvers > 0 /\ liveSessions = 0) =>
        /\ ~isPlaying
        /\ ~roundOpen
        /\ player = Null
        /\ connection = Null
        /\ ~timerArmed

\* C15: a multiple-choice session that was started once and in which no
\* answer was credited sends its game-over summary after round totalRounds,
\* with no score and without the Winner field.
C15_AllRoundsTimeOut ==
    [][(/\ liveSessions = 1
        /\ gameOvers' > gameOvers
        /\ gameMode = "multiple_choice"
        /\ \A u \in Users : playerScores[u] = 0)
         => (/\ currentRound' = totalRounds'
             /\ playerScores' = NoScores
             /\ summary' = "no_winner")]_vars

\* C11: after a playRoundAudio call that succeeded, and as long as no
\* disconnect or error event has occurred at all, no connection is joined, no
\* connection is destroyed and gameState.connection stays the same handle.
C11_ConsecutiveRoundsReuseHandle ==
    [][(prevHandle # Null /\ events' = 0)
         => (/\ Len(status') = Len(status)
             /\ \A c \in DOMAIN status :
                  status'[c] = "destroyed" => status[c] = "destroyed"
             /\ connection' = connection)]_vars

\* C12: a pass of playRoundAudio that finds the connection Connecting,
\* Signalling or Ready reuses it, destroying and creating nothing; one that
\* finds it Disconnected, Destroyed or absent destroys the stale object and
\* joins a new connection.
C12_PassOfLoop ==
    /\ voicePc \in {"idle", "retryWait"}
    /\ voicePc' = "waitReady"

C12_EnsureConnectionIdempotent ==
    [][C12_PassOfLoop =>
         IF connection # Null /\ status[connection] \in LiveStatuses
         THEN connection' = connection /\ status' = status
         ELSE /\ Len(status') = Len(status) + 1
              /\ connection' = Len(status')
              /\ connection # Null => status'[connection] = "destroyed"]_vars

\* C13: a Disconnected handler whose connection re-enters Signalling or
\* Connecting while it waits leaves gameState.connection unchanged; one whose
\* wait ends otherwise sets it to null; and a pass of playRoundAudio that
\* finds the handle null joins a fresh connection.
C13_HandlerEnds(c) == c \in grace /\ c \notin grace'

C13_GraceWindow ==
    [][/\ \A c \in DOMAIN status :
            C13_HandlerEnds(c) =>
                IF status'[c] \in {"signalling", "connecting"}
                THEN connection' = connection
                ELSE connection' = Null
       /\ (C12_PassOfLoop /\ connection = Null) =>
            /\ Len(status') = Len(status) + 1
            /\ connection' = Len(status')
            /\ status'[connection'] = "signalling"]_vars

\* One window was recovered in time and another elapsed, and after the
\* latter a pass of playRoundAudio has joined a new connection.
C13_Witness ==
    /\ graceLog = {"recovered", "elapsed"}
    /\ connection # Null
    /\ status[connection] \in LiveStatuses

\* C16: findAndPlayAudio throws to its caller only when the metadata search
\* and the secondary provider, and the preview when the song has a
\* preview_url, have each been tried and have failed during the call.
C16_FailureOnlyAfterAllTiers ==
    audioPc = "failed" =>
        /\ {"search", "youtube"} \subseteq failedTiers
        /\ song.preview_url => "preview" \in failedTiers

\* C17: within one pass the tiers are tried in the order cache, preview,
\* search, youtube; the yt-dlp tier is entered only after the cache missed,
\* the search failed and, for a song with a preview_url, the preview failed;
\* and a tier that starts playback is the last one tried.
TierRank(tier) ==
    CASE tier = "cache" -> 1
      [] tier = "preview" -> 2
      [] tier = "search" -> 3
      [] tier = "youtube" -> 4

C17_LogHas(tier, result) ==
    \E i \in DOMAIN tierLog :
        tierLog[i].tier = tier /\ tierLog[i].result = result

C17_YouTubeEntered ==
    audioPc = "youtube" \/ \E i \in DOMAIN tierLog : tierLog[i].tier = "youtube"

C17_TierOrder ==
    /\ \A i, j \in DOMAIN tierLog :
         i < j => TierRank(tierLog[i].tier) < TierRank(tierLog[j].tier)
    /\ C17_YouTubeEntered =>
         /\ C17_LogHas("cache", "miss")
         /\ C17_LogHas("search", "error")
         /\ song.preview_url => C17_LogHas("preview", "error")
    /\ \A i \in DOMAIN tierLog :
         tierLog[i].result = "ok" => (i = Len(tierLog) /\ audioPc = "played")

\* A song with a preview_url played by yt-dlp, on a retry of the whole call.
C17_Witness ==
    /\ audioPc = "played"
    /\ servedBy = "youtube"
    /\ song.preview_url
    /\ retryCount > 0

\* C18: when the preview and the search have failed and the secondary
\* provider has started playback, the song's key is in the cache with tier
\* secondary.
C18_SecondaryIsCached ==
    (/\ audioPc = "played"
     /\ servedBy = "youtube"
     /\ C17_LogHas("preview", "error")
     /\ C17_LogHas("search", "error")) =>
        \E i \in DOMAIN audioCache :
            /\ audioCache[i].key = song.key
            /\ audioCache[i].data.type = "secondary"

\* C19: the cache never holds more than MaxCacheSize entries, and a
\* cacheAudioData call made at that size removes the oldest entry and no
\* other; below that size it removes none.
C19_KeptKeys ==
    IF Len(lastInsert[1].before) >= MaxCacheSize
    THEN Tail(lastInsert[1].before) ELSE lastInsert[1].before

C20_NoExpiredEntryServed ==
    (audioPc = "played" /\ servedBy = "cache") =>
        servedAge < CacheTimeoutMinutes

\* C21: once the round is resolved, every yt-dlp process spawned for it has
\* exited or has been sent a signal that terminates it.
C21_NoProcessLeftRunning ==
    roundResolved =>
        \A p \in 1..MaxSpawns : ytState[p] = "running" => ytSignals[p] # {}

\* C22: in a session that was started once, a startNextRound call that
\* resumes from playRoundAudio when its round has been resolved (no round is
\* open) neither sets the player handle nor arms a round timer.
C22_ResolvedRoundNotResumed ==
    [][(/\ liveSessions <= 1
        /\ ~roundOpen
        /\ starting' < starting
        /\ ~crashed')
         => /\ player' = player
            /\ timerArmed' = timerArmed
            /\ orphanTimers' = orphanTimers]_vars

\* C30: in a session that was started once, an open round is skipped by a
\* round timer only when that timer is the one its own startNextRound call
\* armed.
C30_OwnCountdownOnly ==
    [][(/\ liveSessions = 1
        /\ roundOpen
        /\ roundSkips' = roundSkips + 1
        /\ skipTimers' = skipTimers)
         => IF orphanTimers' < orphanTimers THEN ownTimer = "orphan"
            ELSE ownTimer = "named"]_vars

\* C29: a round that is open is resolved later on, so it always has a timer
\* pending or a handler suspended: a round that is open with neither stays
\* open for good.
C29_OpenRoundHasPendingStep == roundOpen => Tasks > 0

\* C23: at most one token request is in flight and at most one refresh or
\* retry timer is pending; a call made while a request is in flight starts
\* no other request.
C23_OneRefreshInFlight ==
    /\ [](grants <= 1 /\ strayTimers = 0)
    /\ [][isRefreshing => grants' <= grants]_vars

\* A caller and the manager's own timer meet a request in flight.
C23_Witness == grants = 1 /\ waiters = 2 /\ tokenValid

\* C24: the n-th failed request in a row schedules one retry, after
\* min(2^n * 1000, 300000) ms, when n < 5, and from the fifth on schedules
\* none and reports that the retries are exhausted; a request that succeeds
\* sets the failure count back to 0.
C24_Backoff ==
    /\ [][failures' = failures + 1 =>
            IF failures' < 5
            THEN /\ tokenRefreshTimeout' /\ strayTimers' = 0 /\ ~fatal'
                 /\ lastDelay' = Min((2 ^ failures') * 1000, 300000)
            ELSE /\ ~tokenRefreshTimeout' /\ strayTimers' = 0 /\ fatal']_vars
    /\ [][(grants' < grants /\ failures' = 0) => tokenRetryCount' = 0]_vars
    /\ [](fatal => ~tokenRefreshTimeout)

\* The fifth failure in a row, after an earlier success.
C24_Witness == fatal /\ failures = 5 /\ tokenValid

\* C25: the list fetchSpotifyPlaylist returns holds, for every pair of a
\* title ignoring case and an artist ignoring case that was fetched, the
\* first track fetched with that pair, and no other track with it.
C25_Identity(track) ==
    <<ToLowerCase(track.title), ToLowerCase(track.artist)>>

C25_FirstOfEachIdentityKept ==
    catalogPc = Undefined =>
        \A i \in DOMAIN fetchedTracks :
            LET first == \A j \in 1..(i - 1) :
                             C25_Identity(fetchedTracks[j])
                                 # C25_Identity(fetchedTracks[i])
                kept == \E k \in DOMAIN uniqueTracks :
                            uniqueTracks[k] = fetchedTracks[i]
            IN  first <=> kept

\* C26: calculateSimilarity is 1 exactly when guess and target are equal
\* after lowercasing, stripping punctuation and trimming; otherwise 0.8 when
\* one normalized string contains the other, and otherwise
\* 1 - editDistance / maxLength; it lies in [0, 1] and divides by no zero.
C26_Stripped(str) ==
    SelectSeq([i \in DOMAIN str |-> IF str[i] = "A" THEN "a" ELSE str[i]],
              LAMBDA c : c # "!")

C26_Normalized(str) ==
    LET t == C26_Stripped(str)
        inner == {i \in DOMAIN t : t[i] # " "}
    IN  IF inner = {} THEN <<>>
        ELSE SubSeq(t, CHOOSE i \in inner : \A k \in inner : i <= k,
                       CHOOSE j \in inner : \A k \in inner : k <= j)

RECURSIVE C26_EditDistance(_, _)
C26_EditDistance(a, b) ==
    IF a = <<>> THEN Len(b)
    ELSE IF b = <<>> THEN Len(a)
    ELSE IF Head(a) = Head(b) THEN C26_EditDistance(Tail(a), Tail(b))
    ELSE 1 + Min(C26_EditDistance(Tail(a), Tail(b)),
                 Min(C26_EditDistance(Tail(a), b), C26_EditDistance(a, Tail(b))))

C26_SimilarityCases ==
    guessPc # "guess" =>
        LET g == C26_Normalized(guess)
            t == C26_Normalized(songTitle)
            longest == Max(Len(g), Len(t))
            num == titleSimilarity[1]
            den == titleSimilarity[2]
        IN  /\ den > 0
            /\ 0 <= num /\ num <= den
            /\ (num = den) <=> (g = t)
            /\ g # t =>
                 IF Includes(g, t) \/ Includes(t, g)
                 THEN num * 5 = 4 * den
                 ELSE num * longest = (longest - C26_EditDistance(g, t)) * den

\* C27: a guess whose similarity to the title or to the artist exceeds 0.7
\* is classified correct.
C27_AcceptedAboveThreshold ==
    guessPc = "done" =>
        ((Exceeds(titleSimilarity, 7, 10) \/ Exceeds(artistSimilarity, 7, 10))
            => verdict = "correct")

\* C28: sessions are isolated by guild: while a session is running, an event
\* issued in another guild than the session's changes neither its track
\* list, nor its scores, its round index, its configuration or its
\* connection.
C28_IsolatedByGuild ==
    [][(liveSessions > 0 /\ gameChannel # Null /\ eventGuild' # eventGuild
          /\ eventGuild' # gameChannel)
         => UNCHANGED <<tracks, playerScores, currentRound, totalRounds,
                        timeLimit, difficulty, gameMode, connection>>]_vars

\* C31: for one round's track yt-dlp is spawned at most MaxYtRetries + 1
\* times, one attempt and MaxYtRetries retries, before the failure is
\* reported.
C31_SpawnsBounded == spawns <= MaxYtRetries + 1

\* C32: a preview fetch that has neither started playback nor failed is no
\* older than its timeout, measured from the start of the fetch.
C32_PreviewEndsByTimeout ==
    previewPc \in {"requested", "body"} => previewNow <= SpotifyPreviewTimeout

\* C33: a vote skips the round only when strictly more than half of the
\* members of the voice channel have voted in that round.
C33_SkipNeedsMajority ==
    [][(skipOutcome = "none" /\ skipOutcome' = "skipped")
         => 2 * Cardinality(roundVoters' \cap voiceMembers)
              > Cardinality(voiceMembers)]_vars

\* C34: the step that resolves a round (an answer, a skip or the timeout)
\* nulls the player handle and leaves no countdown named by timeoutId
\* pending, and it leaves the connection handle as it is; only the end of
\* the session, or the exit of the process, touches the connection.
C34_RoundResolved ==
    /\ roundOpen /\ ~roundOpen'
    /\ gameOvers' = gameOvers
    /\ ~crashed'

C34_ResolutionKeepsConnection ==
    [][C34_RoundResolved
         => /\ player' = Null
            /\ ~timerArmed'
            /\ connection' = connection]_vars

\* A round has been resolved, by a skip or by an answer, and the connection
\* is live.
C34_Witness ==
    /\ ~roundOpen
    /\ connection = Live
    /\ player = Null
    /\ nextTimers > 0
    /\ roundSkips + roundCredits > 0

\* C35: a step that skips a round, on its timeout or after an audio or
\* connection failure, leaves every score as it is; and within a session
\* a step other than a start changes the scores only by crediting an
\* answer, which raises the score of one player and leaves the others.
C35_OneScoreRaised ==
    \E u \in Users :
        /\ playerScores'[u] > playerScores[u]
        /\ \A v \in Users \ {u} : playerScores'[v] = playerScores[v]

C35_ScoresChangeOnlyByCredit ==
    /\ [][(roundSkips' > roundSkips \/ skipTimers' > skipTimers)
            => playerScores' = playerScores]_vars
    /\ [][(liveSessions > 0 /\ liveSessions' = liveSessions
             /\ playerScores' # playerScores)
            => (roundCredits' = roundCredits + 1 /\ C35_OneScoreRaised)]_vars

\* A round was credited and a later one skipped: the score is still there.
C35_Witness ==
    /\ liveSessions = 1
    /\ roundCredits = 0
    /\ roundSkips > 0
    /\ \E u \in Users : playerScores[u] > 0

\* C36: the game-over summary is sent once per session: a session that was
\* the only one in progress when endGame ran has had endGame run once.
C36_SummaryOncePerSession ==
    endedSessions = 1 => gameOvers <= 1

\* C37: a call of getSpotifyAccessToken or ensureValidToken that returns
\* without throwing leaves a valid token behind: the caller whose request
\* succeeded, and the caller that waited for the request of another.
C37_ReturnMeansValidToken ==
    [][(\/ waiters' < waiters
        \/ (grants' < grants /\ failures' = 0))
         => tokenValid']_vars

\* C38: the guessTime of an accepted correct answer lies between 0 and the
\* delay the countdown of its round was armed with.
C38_AnswerWithinCountdown ==
    (elapsedMs # Undefined /\ armedLimit # Null)
      => (0 <= elapsedMs /\ elapsedMs <= armedLimit)

\* C39: the Disconnected handler of a connection whose wait ends without
\* recovery sets gameState.connection to null only when gameState.connection
\* is that connection.
C39_HandlerNullsOwnConnection ==
    [][\A c \in DOMAIN status :
         (/\ c \in grace
          /\ c \notin grace'
          /\ status' = status
          /\ connection # Null
          /\ connection' = Null)
           => connection = c]_vars



\* C40: when a round is resolved, the only player of the round that is
\* playing is the one gameState.player names, which cleanupRound stops.
C40_ResolvedRoundStopsItsPlayers ==
    [][(~playersResolved /\ playersResolved')
         => \A p \in DOMAIN playerState :
              playerState[p] = "playing" => p = playerHandle]_vars

====
